---- MODULE Spec2Model ----
(***************************************************************************)
(* A model of ftm-analyze: the extract / aggregate / resolve / emit        *)
(* pipeline around ftm_analyze.analysis.analyzer.Analyzer.                 *)
(*                                                                         *)
(* Python None is written None (a string no value of the program equals);  *)
(* an optional confidence is a sequence, <<>> for None and <<c>> for c.    *)
(***************************************************************************)
EXTENDS Integers, Sequences, FiniteSets, TLC

None == "<None>"

\* ------------------------------------------------------------------------
\* Bounds of the model.
\* ------------------------------------------------------------------------

\* Stand-in for aggregator.MAX_RESULTS (10_000 in the source), scaled so that
\* the capacity is reached within the bounded runs.
MAX_RESULTS == 3

\* Number of Aggregator.add calls made on one aggregator in SpecAgg.
MaxAdds == 5

\* Number of results fed to one Analyzer before flush in Spec.
MaxFeed == 2

\* Number of chunks of a text in SpecFeed.
MaxChunks == 2

\* Number of concurrent analyzer tasks in SpecLoad.
MaxTasks == 2

\* Number of entities one task analyzes in SpecLoad.
MaxRuns == 2

\* Longest run of characters after the prefix of a candidate name in SpecName.
MaxNameBody == 101

\* Number of Annotator.add calls before get_texts in SpecAnnotate.
MaxAnnotations == 3

\* ------------------------------------------------------------------------
\* Tags (extract/base.py) and the raw values of the model.
\* ------------------------------------------------------------------------

TAG_PER == "PER"
TAG_ORG == "ORG"
TAG_LOC == "LOC"
TAG_EMAIL == "EMAIL"
TAG_PHONE == "PHONE"
TAG_IBAN == "IBAN"
TAG_OTHER == "OTHER"
TAG_COUNTRY == "COUNTRY"

\* aggregator.NER_TAGS
NER_TAGS == {TAG_PER, TAG_ORG, TAG_LOC}

\* extract/base.py TAG_TO_PROP: only the NER tags have a property.
TAG_TO_PROP ==
    [t \in NER_TAGS |->
        CASE t = TAG_PER -> "peopleMentioned"
          [] t = TAG_ORG -> "companiesMentioned"
          [] t = TAG_LOC -> "locationMentioned"]

\* ExtractionResult.prop: TAG_TO_PROP.get(self.tag)
ResultProp(tag) == IF tag \in DOMAIN TAG_TO_PROP THEN TAG_TO_PROP[tag] ELSE None

\* rigour.names.normalize_name on the values of the model: casefolding and
\* whitespace collapsing; None (here "") when nothing is left.
NormalizeName(v) ==
    CASE v = "Angela Merkel" -> "angela merkel"
      [] v = "ANGELA MERKEL" -> "angela merkel"
      [] v = "Mrs. Angela Merkel" -> "mrs angela merkel"
      [] v = "Acme Holdings Ltd" -> "acme holdings ltd"
      [] v = "the Circular Plastics Alliance" -> "the circular plastics alliance"
      [] v = "Circular Plastics Alliance" -> "circular plastics alliance"
      [] v = "New York City" -> "new york city"
      [] v = "Christina" -> "christina"
      [] v = "Pudel von Nirgendwo" -> "pudel von nirgendwo"
      [] v = "Morgan Stanley Rothschild" -> "morgan stanley rothschild"
      [] v = "Michael Holding" -> "michael holding"
      [] v = "name:morgan-stanley-rothschild" -> "name morgan stanley rothschild"
      [] v = "name:michael-holding" -> "name michael holding"
      [] v = "address:acme-holdings-ltd" -> "address acme holdings ltd"
      [] v = "address:the-circular-plastics-alliance" -> "address the circular plastics alliance"
      [] v = "address:pudel-von-nirgendwo" -> "address pudel von nirgendwo"
      [] v = "address:morgan-stanley-rothschild" -> "address morgan stanley rothschild"
      [] v = "address:michael-holding" -> "address michael holding"
      [] v = "name:angela-merkel" -> "name angela merkel"
      [] v = "name:mrs-angela-merkel" -> "name mrs angela merkel"
      [] v = "name:acme-holdings-ltd" -> "name acme holdings ltd"
      [] v = "name:the-circular-plastics-alliance" -> "name the circular plastics alliance"
      [] v = "name:new-york-city" -> "name new york city"
      [] v = "name:christina" -> "name christina"
      [] v = "name:pudel-von-nirgendwo" -> "name pudel von nirgendwo"
      [] v = "address:new-york-city" -> "address new york city"
      [] v = "address:christina" -> "address christina"
      [] v = "address:angela-merkel" -> "address angela merkel"
      [] OTHER -> ""

\* normality.slugify on the values of the model.
Slugify(v) ==
    CASE v = "Angela Merkel" -> "angela-merkel"
      [] v = "ANGELA MERKEL" -> "angela-merkel"
      [] v = "Mrs. Angela Merkel" -> "mrs-angela-merkel"
      [] v = "Acme Holdings Ltd" -> "acme-holdings-ltd"
      [] v = "the Circular Plastics Alliance" -> "the-circular-plastics-alliance"
      [] v = "New York City" -> "new-york-city"
      [] v = "Christina" -> "christina"
      [] v = "Pudel von Nirgendwo" -> "pudel-von-nirgendwo"
      [] v = "Morgan Stanley Rothschild" -> "morgan-stanley-rothschild"
      [] v = "Michael Holding" -> "michael-holding"
      [] OTHER -> ""

\* followthemoney PropertyType.node_id_safe for the type of property `prop`
\* (peopleMentioned and companiesMentioned are names, locationMentioned is an
\* address): "<type>:<slug>", None when the slug is empty.
NodeIdSafe(prop, v) ==
    IF Slugify(v) = "" THEN ""
    ELSE (IF prop = "locationMentioned" THEN "address:" ELSE "name:") \o Slugify(v)

\* ------------------------------------------------------------------------
\* State.
\* ------------------------------------------------------------------------

VARIABLES
    results,            \* Aggregator.results: (key, tag) -> AggregatedResult
    order,              \* insertion order of the dict Aggregator.results
    count,              \* Aggregator._count
    accepted_count,     \* Aggregator.accepted_count
    rejected_count,     \* Aggregator.rejected_count
    rejection_reasons,  \* Aggregator.rejection_reasons (a defaultdict(int))
    arg,                \* <<r>>: the result passed to the latest Aggregator.add
    ret                 \* <<b>>: what the latest Aggregator.add returned

aggVars == <<results, order, count, accepted_count, rejected_count,
             rejection_reasons, arg, ret>>


\* ------------------------------------------------------------------------
\* Aggregator (analysis/aggregate/aggregator.py).
\* ------------------------------------------------------------------------

Reasons == {"max_results_exceeded", "invalid_key"}

\* ExtractionResult
Result(value, tag, source, confidence) ==
    [value |-> value, tag |-> tag, source |-> source, confidence |-> confidence]

\* Aggregator._make_key; "" stands for None (add tests `not key`).
MakeKey(r) ==
    IF r.value = "" THEN ""
    ELSE IF r.tag \in NER_TAGS
         THEN LET value == IF ResultProp(r.tag) # None
                           THEN NodeIdSafe(ResultProp(r.tag), r.value)
                           ELSE r.value
              IN  IF value # "" THEN NormalizeName(value) ELSE ""
         ELSE IF ResultProp(r.tag) # None
              THEN NodeIdSafe(ResultProp(r.tag), r.value)
              ELSE r.value

\* AggregatedResult(key=key, tag=tag)
NewAggregated(key, tag) ==
    [key |-> key, tag |-> tag, values |-> {}, sources |-> {},
     max_confidence |-> <<>>]

\* add_value keeping the latest confidence instead of the maximum.
AddValueLatest(a, value, source, confidence) ==
    [a EXCEPT !.values = @ \cup {value},
              !.sources = @ \cup {source},
              !.max_confidence = IF confidence # <<>> THEN confidence ELSE @]

\* AggregatedResult.add_value
AddValue(a, value, source, confidence) ==
    [a EXCEPT !.values = @ \cup {value},
              !.sources = @ \cup {source},
              !.max_confidence =
                  IF confidence # <<>>
                  THEN IF @ = <<>> \/ confidence[1] > @[1] THEN confidence ELSE @
                  ELSE @]

\* The capacity test with the comparison of the older TagAggregator
\* (len(self.values) > MAX_TAGS): one group too many is let in.
AtCapacityOffByOne == count > MAX_RESULTS

\* Whether Aggregator.add refuses the result for capacity.
AtCapacity == count >= MAX_RESULTS

\* Aggregator.add(result)
AggAdd(r) ==
    /\ arg' = <<r>>
    /\ IF AtCapacity
       THEN /\ rejection_reasons' =
                   [rejection_reasons EXCEPT !["max_results_exceeded"] = @ + 1]
            /\ rejected_count' = rejected_count + 1
            /\ ret' = <<FALSE>>
            /\ UNCHANGED <<results, order, count, accepted_count>>
       ELSE LET key == MakeKey(r)
                lookup_key == <<key, r.tag>>
            IN  IF key = ""
                THEN /\ rejection_reasons' =
                            [rejection_reasons EXCEPT !["invalid_key"] = @ + 1]
                     /\ rejected_count' = rejected_count + 1
                     /\ ret' = <<FALSE>>
                     /\ UNCHANGED <<results, order, count, accepted_count>>
                ELSE LET fresh == lookup_key \notin DOMAIN results
                         prior == IF fresh THEN NewAggregated(key, r.tag)
                                  ELSE results[lookup_key]
                         entry == AddValue(prior, r.value, r.source, r.confidence)
                     IN  /\ results' =
                                [k \in DOMAIN results \cup {lookup_key} |->
                                    IF k = lookup_key THEN entry ELSE results[k]]
                         /\ order' = IF fresh THEN Append(order, lookup_key) ELSE order
                         /\ count' = IF fresh THEN count + 1 ELSE count
                         /\ accepted_count' = accepted_count + 1
                         /\ ret' = <<TRUE>>
                         /\ UNCHANGED <<rejected_count, rejection_reasons>>

\* Aggregator.__init__
AggInit ==
    /\ results = <<>>
    /\ order = <<>>
    /\ count = 0
    /\ accepted_count = 0
    /\ rejected_count = 0
    /\ rejection_reasons = [x \in Reasons |-> 0]
    /\ arg = <<>>
    /\ ret = <<>>

\* The results handed to Aggregator.add in SpecAgg.
AggResults ==
    { Result("Angela Merkel", TAG_PER, "spacy", <<>>),
      Result("ANGELA MERKEL", TAG_PER, "gliner", <<2>>),
      Result("Angela Merkel", TAG_PER, "gliner", <<1>>),
      Result("Angela Merkel", TAG_ORG, "spacy", <<>>),
      Result("Acme Holdings Ltd", TAG_ORG, "spacy", <<1>>),
      Result("New York City", TAG_LOC, "spacy", <<>>),
      Result("us", TAG_COUNTRY, "spacy", <<>>),
      Result("info@acme.eu", TAG_EMAIL, "pattern", <<>>),
      Result("", TAG_PER, "spacy", <<>>) }

\* One call of Aggregator.add by a caller of the class.
Add(r) ==
    /\ accepted_count + rejected_count < MaxAdds
    /\ AggAdd(r)

AddAny == \E r \in AggResults : Add(r)

\* ------------------------------------------------------------------------
\* Libraries and external services, tabulated on the values of the model.
\* ------------------------------------------------------------------------

\* The character of string s at position i.
Char(s, i) == SubSeq(s, i, i)

\* str.isalpha on the characters of the model.
Letters ==
    {"a", "b", "c", "d", "e", "f", "g", "h", "i", "j", "k", "l", "m", "n", "o",
     "p", "q", "r", "s", "t", "u", "v", "w", "x", "y", "z",
     "A", "B", "C", "D", "E", "F", "G", "H", "I", "J", "K", "L", "M", "N", "O",
     "P", "Q", "R", "S", "T", "U", "V", "W", "X", "Y", "Z"}

Digits == {"0", "1", "2", "3", "4", "5", "6", "7", "8", "9"}

\* s.startswith(p)
StartsWith(s, p) == Len(s) >= Len(p) /\ SubSeq(s, 1, Len(p)) = p

\* s without the prefix of `prefixes` it starts with, if any (no prefix of
\* the model starts another one).
RemovePrefix(s, prefixes) ==
    IF \E p \in prefixes : StartsWith(s, p)
    THEN SubSeq(s, Len(CHOOSE p \in prefixes : StartsWith(s, p)) + 1, Len(s))
    ELSE s

\* The honorifics and articles rigour knows, as they occur in the model.
PersonPrefixes == {"Mr. ", "Mrs. ", "mr ", "mrs "}
OrgPrefixes == {"The ", "the "}

\* rigour.names.remove_person_prefixes
RemovePersonPrefixes(n) == RemovePrefix(n, PersonPrefixes)

\* rigour.names.remove_org_prefixes
RemoveOrgPrefixes(n) == RemovePrefix(n, OrgPrefixes)

\* rigour.names.remove_obj_prefixes
RemoveObjPrefixes(n) == RemovePrefix(n, OrgPrefixes)

\* ------------------------------------------------------------------------
\* The name acceptance filter and the NER results (extract/base.py).
\* ------------------------------------------------------------------------

NAME_MAX_LENGTH == 100
NAME_MIN_LENGTH == 8

\* s without its leading spaces.
RECURSIVE StripLeft(_)
StripLeft(s) ==
    IF s # "" /\ Char(s, 1) = " " THEN StripLeft(SubSeq(s, 2, Len(s))) ELSE s

\* s without its trailing spaces.
RECURSIVE StripRight(_)
StripRight(s) ==
    IF s # "" /\ Char(s, Len(s)) = " "
    THEN StripRight(SubSeq(s, 1, Len(s) - 1)) ELSE s

\* Whether positions i and i + 1 of s both hold a space.
DoubleSpace(s, i) == i < Len(s) /\ Char(s, i) = " " /\ Char(s, i + 1) = " "

\* s from position i on with every run of spaces as one space: the first of
\* two spaces in a row is dropped, wherever there are two.
RECURSIVE CollapseFrom(_, _)
CollapseFrom(s, i) ==
    IF \A j \in i..Len(s) : ~DoubleSpace(s, j) THEN SubSeq(s, i, Len(s))
    ELSE SubSeq(s, i, (CHOOSE j \in i..Len(s) :
                          /\ DoubleSpace(s, j)
                          /\ \A k \in i..(j - 1) : ~DoubleSpace(s, k)) - 1)
         \o CollapseFrom(s, (CHOOSE j \in i..Len(s) :
                                /\ DoubleSpace(s, j)
                                /\ \A k \in i..(j - 1) : ~DoubleSpace(s, k)) + 1)

\* Whether s from position i on has a character of the set `chars`.
HasChar(s, chars) == \E i \in 1..Len(s) : Char(s, i) \in chars

\* ftmq.util.clean_name: the trimmed value with whitespace collapsed, None if
\* it has no letter and no digit.
CleanName(text) ==
    IF HasChar(text, Letters \cup Digits)
    THEN CollapseFrom(StripRight(StripLeft(text)), 1)
    ELSE None

\* clean_entity_prefix
CleanEntityPrefix(name) == RemovePersonPrefixes(RemoveOrgPrefixes(name))

\* test_name from its second test on: the prefix-stripped value.
TestStripped(text) ==
    IF Len(text) < NAME_MIN_LENGTH THEN FALSE ELSE HasChar(text, Letters)

\* test_name from its first test on: the cleaned value.
TestCleaned(text) ==
    IF text = None \/ Len(text) > NAME_MAX_LENGTH THEN FALSE
    ELSE TestStripped(CleanEntityPrefix(text))

\* test_name
TestName(text) == TestCleaned(CleanName(text))

\* NER_LABEL_MAP
NER_LABEL_MAP ==
    [l \in {"PER", "B-PER", "I-PER", "PERSON", "ORG", "B-ORG", "I-ORG", "LOC",
            "B-LOC", "I-LOC", "GPE", "person", "organization", "location"} |->
        IF l \in {"PER", "B-PER", "I-PER", "PERSON", "person"} THEN TAG_PER
        ELSE IF l \in {"ORG", "B-ORG", "I-ORG", "organization"} THEN TAG_ORG
        ELSE TAG_LOC]

\* A normalize_label that lets an unknown label through as it is.
NormalizeLabelVerbatim(label) ==
    IF label \in DOMAIN NER_LABEL_MAP THEN NER_LABEL_MAP[label] ELSE label

\* normalize_label
NormalizeLabel(label) ==
    IF label \in DOMAIN NER_LABEL_MAP THEN NER_LABEL_MAP[label] ELSE TAG_OTHER

\* country.location_country(value): the countries of a location name.
LocationCountry(value) ==
    CASE value = "New York City" -> <<"us">>
      [] OTHER -> <<>>

\* The COUNTRY results make_ner_result yields for the countries `todo`.
RECURSIVE CountryResults(_, _)
CountryResults(todo, source) ==
    IF todo = <<>> THEN <<>>
    ELSE <<[value |-> Head(todo), tag |-> TAG_COUNTRY, source |-> source,
            confidence |-> <<>>]>>
         \o CountryResults(Tail(todo), source)

\* make_ner_result(label, value, source): the results it yields.
MakeNerResult(label, value, source) ==
    IF NormalizeLabel(label) = TAG_OTHER THEN <<>>
    ELSE IF ~TestName(value) THEN <<>>
    ELSE <<[value |-> value, tag |-> NormalizeLabel(label), source |-> source,
            confidence |-> <<>>]>>
         \o (IF NormalizeLabel(label) = TAG_LOC
             THEN CountryResults(LocationCountry(value), source) ELSE <<>>)

\* rigour.is_rigour_person: every token of the name carries a NAME symbol.
\* Its lru_cache memoizes a pure function and is not part of the state.
IsRigourPerson(name) ==
    name \in {"Angela Merkel", "ANGELA MERKEL", "Mrs. Angela Merkel", "Christina",
              "Morgan Stanley Rothschild", "Michael Holding"}

\* rigour.is_rigour_org: the name carries an ORG_CLASS symbol (Ltd, Inc, ...).
\* The two heuristics are independent: a name of person names only can
\* carry an ORG_CLASS symbol (Holding).
IsRigourOrg(name) == name \in {"Acme Holdings Ltd", "Michael Holding"}

\* rigour.classify_name_rigour
ClassifyNameRigour(name) ==
    IF IsRigourPerson(name) THEN TAG_PER
    ELSE IF IsRigourOrg(name) THEN TAG_ORG
    ELSE TAG_OTHER

\* A NameDB schema prediction; the score is in hundredths.
Prediction(tag, score) == [ner_tag |-> tag, score |-> score]

\* juditha.predict.predict_schema(name): the NameDB of the model.
PredictSchema(name) ==
    CASE name = "Angela Merkel" -> <<Prediction(TAG_PER, 99)>>
      [] name = "ANGELA MERKEL" -> <<Prediction(TAG_PER, 99)>>
      [] name = "Mrs. Angela Merkel" -> <<Prediction(TAG_PER, 97)>>
      [] name = "Circular Plastics Alliance" -> <<Prediction(TAG_PER, 95)>>
      [] name = "the Circular Plastics Alliance" -> <<Prediction(TAG_ORG, 96)>>
      [] name = "Acme Holdings Ltd" -> <<Prediction(TAG_PER, 40), Prediction(TAG_ORG, 90)>>
      [] name = "New York City" -> <<Prediction(TAG_LOC, 97)>>
      [] name = "Christina" -> <<Prediction(TAG_PER, 60), Prediction(TAG_LOC, 93)>>
      [] name = "Morgan Stanley Rothschild" -> <<Prediction(TAG_PER, 97)>>
      [] name = "Michael Holding" -> <<Prediction(TAG_PER, 62)>>
      [] OTHER -> <<>>

\* juditha.validate_name(name): the name datasets of the model.
ValidateName(name) ==
    name \in {"Angela Merkel", "ANGELA MERKEL", "Mrs. Angela Merkel", "Christina",
              "Morgan Stanley Rothschild", "Michael Holding"}

\* A GeoDB location; similarity is jellyfish.jaro_similarity(text_norm(name),
\* result.name) in hundredths.
Location(name, country_code) == [name |-> name, country_code |-> country_code]
NoLocation == Location(None, None)

\* geonames_tagger.tag_locations(name): the gazetteer of the model, each
\* result with its Jaro similarity to the queried name.
TagLocations(name) ==
    CASE name = "New York City" ->
            << [loc |-> Location("York", "gb"), similarity |-> 72],
               [loc |-> Location("New York City", "us"), similarity |-> 100] >>
      [] name = "Christina" ->
            << [loc |-> Location("Christina", "ca"), similarity |-> 100] >>
      [] OTHER -> <<>>

\* juditha.lookup(name, threshold): the entity store of the model; the score
\* is in hundredths and None is NoHit.
NoHit ==
    [caption |-> None, score |-> 0, names |-> {}, schemata |-> {}, countries |-> {}]

JudithaLookup(name) ==
    CASE name = "Circular Plastics Alliance" ->
            [caption |-> "Circular Plastics Alliance", score |-> 100,
             names |-> {"Circular Plastics Alliance"},
             schemata |-> {"Organization"}, countries |-> {"be"}]
      [] name = "Acme Holdings Ltd" ->
            [caption |-> "Acme Holdings Ltd", score |-> 95,
             names |-> {"Acme Holdings Ltd"},
             schemata |-> {"Conglomerate"}, countries |-> {}]
      [] OTHER -> NoHit

\* The calls that leave the process and may fail.
Externals == {"predict_schema", "validate_name", "tag_locations", "lookup"}

\* ------------------------------------------------------------------------
\* Mention (analysis/resolve/mention.py).  resolved_values None is the empty
\* set: every use tests its truth value.
\* ------------------------------------------------------------------------

\* Mention.from_aggregated
FromAggregated(key, tag, values, entity_id, sources) ==
    [key |-> key, tag |-> tag, values |-> values, entity_id |-> entity_id,
     sources |-> sources,
     ner_tag |-> IF tag \in {"PER", "ORG", "LOC"} THEN tag ELSE "OTHER",
     resolved_values |-> {}, canonical_value |-> None,
     resolved_schema |-> None, resolved_entity_id |-> None,
     is_valid |-> TRUE, is_rejected |-> FALSE,
     rejection_reason |-> None, rejection_stage |-> None]

\* A reject that marks the mention and records nothing.
RejectUnrecorded(m, reason, stage) ==
    [m EXCEPT !.is_rejected = TRUE, !.is_valid = FALSE]

\* Mention.reject
Reject(m, reason, stage) ==
    [m EXCEPT !.is_rejected = TRUE, !.is_valid = FALSE,
              !.rejection_reason = reason, !.rejection_stage = stage]

\* `mention.resolved_values or mention.values`
CurrentValues(m) == IF m.resolved_values # {} THEN m.resolved_values ELSE m.values

\* ------------------------------------------------------------------------
\* Resolution stages (analysis/resolve/stages).  A stage works on the record
\*   st = [mention, countries, geoCache, classifyCache, raised, trace, added,
\*         failed]
\* mention and countries (context.countries) are what process mutates, the
\* caches are the process-wide lru_caches, raised is the exception leaving
\* process (None when it returns), trace lists the process calls made with
\* the mention each returned, added the countries stages put in the context,
\* failed the external calls that were made and failed.
\* The environment of one resolve is o = [fails, rank]: the external calls
\* that fail while this mention is resolved, and the order in which Python
\* iterates the strings of a set (an implementation detail of set).
\* ------------------------------------------------------------------------

\* Position of string v in the iteration order.
Pos(rank, v) == CHOOSE i \in 1..Len(rank) : rank[i] = v

\* next(iter(values))
First(values, o) ==
    CHOOSE v \in values : \A w \in values : Pos(o.rank, v) <= Pos(o.rank, w)

\* list(values): the values in iteration order.
RECURSIVE IterList(_, _)
IterList(values, o) ==
    IF values = {} THEN <<>>
    ELSE <<First(values, o)>> \o IterList(values \ {First(values, o)}, o)

\* RigourStage.process with one prefix remover for every tag in its last
\* branch.
RigourProcessOnePrefixList(st, o) ==
    LET m == st.mention
        values == CurrentValues(m)
        first == IF values = {} THEN None ELSE First(values, o)
    IN  IF values = {} THEN st
        ELSE IF IsRigourPerson(first)
        THEN [st EXCEPT !.mention.ner_tag = "PER",
                        !.mention.resolved_values =
                            {RemovePersonPrefixes(n) : n \in values}]
        ELSE IF IsRigourOrg(first)
        THEN [st EXCEPT !.mention.ner_tag = "ORG",
                        !.mention.resolved_values =
                            {RemoveOrgPrefixes(n) : n \in values}]
        ELSE [st EXCEPT !.mention.resolved_values =
                            {RemoveObjPrefixes(n) : n \in values}]

\* RigourStage.process
RigourProcess(st, o) ==
    LET m == st.mention
        values == CurrentValues(m)
        first == IF values = {} THEN None ELSE First(values, o)
        fails == o.fails
    IN  IF values = {} THEN st
        ELSE IF IsRigourPerson(first)
        THEN [st EXCEPT !.mention.ner_tag = "PER",
                        !.mention.resolved_values =
                            {RemovePersonPrefixes(n) : n \in values}]
        ELSE IF IsRigourOrg(first)
        THEN [st EXCEPT !.mention.ner_tag = "ORG",
                        !.mention.resolved_values =
                            {RemoveOrgPrefixes(n) : n \in values}]
        ELSE IF m.ner_tag = "ORG"
        THEN [st EXCEPT !.mention.resolved_values =
                            {RemoveOrgPrefixes(n) : n \in values}]
        ELSE IF m.ner_tag = "PER"
        THEN [st EXCEPT !.mention.resolved_values =
                            {RemovePersonPrefixes(n) : n \in values}]
        ELSE [st EXCEPT !.mention.resolved_values =
                            {RemoveObjPrefixes(n) : n \in values}]

\* The first prediction of `preds` from position i on that is honoured, 0 for
\* none; scores are in hundredths.
RECURSIVE FirstConfident(_, _)
FirstConfident(preds, i) ==
    IF i > Len(preds) THEN 0
    ELSE IF preds[i].score > 90 THEN i
    ELSE FirstConfident(preds, i + 1)

\* The return value of classify_mention_juditha when prediction i of `preds`
\* is the first honoured one (0: none is).
ClassifyHonoured(preds, i, name, original_tag) ==
    IF i # 0
    THEN IF preds[i].ner_tag \in {"LOC", "OTHER"} /\ original_tag # "LOC"
         THEN "OTHER"
         ELSE IF original_tag = "ORG" /\ preds[i].ner_tag = "PER"
                 /\ Len(name) > 20
         THEN "ORG"
         ELSE preds[i].ner_tag
    ELSE IF ClassifyNameRigour(name) = "ORG" THEN "ORG" ELSE "OTHER"

\* The body of classify_mention_juditha(name, original_tag) when
\* predict_schema(name) answers `preds`.
ClassifyPredictions(preds, name, original_tag) ==
    ClassifyHonoured(preds, FirstConfident(preds, 1), name, original_tag)

\* The body of classify_mention_juditha(name, original_tag) once
\* predict_schema has answered.
ClassifyMentionJuditha(name, original_tag) ==
    ClassifyPredictions(PredictSchema(name), name, original_tag)

\* JudithaClassifierStage.process, with the lru_cache of
\* classify_mention_juditha: a cached answer needs no call; an exception of
\* predict_schema is not caught and nothing is cached.
JudithaClassifierProcess(st, o) ==
    LET m == st.mention
        values == CurrentValues(m)
        first == IF values = {} THEN None ELSE First(values, o)
        fails == o.fails
        k == <<first, m.ner_tag>>
        cached == k \in DOMAIN st.classifyCache
    IN  IF values = {} THEN st
        ELSE IF ~cached /\ "predict_schema" \in fails
        THEN [st EXCEPT !.raised = "predict_schema",
                        !.failed = @ \cup {"predict_schema"}]
        ELSE LET classified_tag ==
                     IF cached THEN st.classifyCache[k]
                     ELSE ClassifyMentionJuditha(first, m.ner_tag)
                 cache2 == [x \in DOMAIN st.classifyCache \cup {k} |->
                               IF x = k THEN classified_tag
                               ELSE st.classifyCache[x]]
                 m2 == [m EXCEPT !.ner_tag = classified_tag]
             IN  [st EXCEPT !.classifyCache = cache2,
                            !.mention =
                                IF m2.ner_tag = "OTHER"
                                THEN Reject(m2, "Classified as OTHER by juditha",
                                            "juditha_classifier")
                                ELSE m2]

\* JudithaValidatorStage.process: an exception of validate_name is not caught.
JudithaValidatorProcess(st, o) ==
    LET m == st.mention
        values == CurrentValues(m)
        first == IF values = {} THEN None ELSE First(values, o)
        fails == o.fails
    IN  IF m.ner_tag # "PER" THEN st
        ELSE IF values = {} THEN st
        ELSE IF "validate_name" \in fails
        THEN [st EXCEPT !.raised = "validate_name",
                        !.failed = @ \cup {"validate_name"}]
        ELSE IF ~ValidateName(first)
        THEN [st EXCEPT !.mention =
                            Reject(m, "Name validation failed", "juditha_validator")]
        ELSE st

\* The first result of tag_locations(name) from position i on whose Jaro
\* similarity exceeds 0.9.
RECURSIVE FirstSimilar(_, _)
FirstSimilar(locs, i) ==
    IF i > Len(locs) THEN NoLocation
    ELSE IF locs[i].similarity > 90 THEN locs[i].loc
    ELSE FirstSimilar(locs, i + 1)

\* refine_location(name) without its first statement, the person test.
RefineLocationAnyName(name, fails) ==
    IF "tag_locations" \in fails THEN NoLocation
    ELSE FirstSimilar(TagLocations(name), 1)

\* The body of refine_location(name): an exception of tag_locations is caught
\* and None is returned.
RefineLocation(name, fails) ==
    IF IsRigourPerson(name) THEN NoLocation
    ELSE IF "tag_locations" \in fails THEN NoLocation
    ELSE FirstSimilar(TagLocations(name), 1)

\* refine_location(name) behind its lru_cache: whatever the body returned,
\* None included, is the answer of every later call.
CachedRefineLocation(cache, name, fails) ==
    IF name \in DOMAIN cache THEN cache[name] ELSE RefineLocation(name, fails)

\* The lru_cache of refine_location after a call for name.
RefineLocationCache(cache, name, fails) ==
    [x \in DOMAIN cache \cup {name} |->
        IF x \in DOMAIN cache THEN cache[x] ELSE RefineLocation(name, fails)]

\* Whether the call refine_location(name) runs tag_locations and it fails.
TagLocationsFailed(cache, name, fails) ==
    name \notin DOMAIN cache /\ ~IsRigourPerson(name) /\ "tag_locations" \in fails

\* The loop of GeonamesStage.process over the values still to visit: each
\* visited value goes through refine_location; the first match sets the
\* canonical value, adds the country and ends the loop.
RECURSIVE GeonamesLoop(_, _, _)
GeonamesLoop(st, todo, fails) ==
    IF todo = <<>> THEN st
    ELSE LET value == Head(todo)
             location == CachedRefineLocation(st.geoCache, value, fails)
             cache2 == RefineLocationCache(st.geoCache, value, fails)
         IN  IF location # NoLocation
             THEN [st EXCEPT !.geoCache = cache2,
                             !.mention.canonical_value = location.name,
                             !.countries =
                                 IF location.country_code # None
                                 THEN @ \cup {location.country_code} ELSE @,
                             !.added =
                                 IF location.country_code # None
                                 THEN @ \cup {location.country_code} ELSE @]
             ELSE GeonamesLoop(
                      [st EXCEPT !.geoCache = cache2,
                                 !.failed =
                                     IF TagLocationsFailed(st.geoCache, value, fails)
                                     THEN @ \cup {"tag_locations"} ELSE @],
                      Tail(todo), fails)

\* GeonamesStage.process; reject_unmatched is False in the Analyzer, so an
\* unmatched mention passes through.
GeonamesProcess(st, o) ==
    LET m == st.mention
        values == CurrentValues(m)
    IN  IF m.ner_tag # "LOC" THEN st
        ELSE IF values = {} THEN st
        ELSE GeonamesLoop(st, IterList(values, o), o.fails)

\* JudithaLookupStage.process (threshold 0.8): an exception of lookup is
\* caught and the mention is left as it is.
JudithaLookupProcess(st, o) ==
    LET m == st.mention
        values == CurrentValues(m)
        first == IF values = {} THEN None ELSE First(values, o)
        fails == o.fails
        result == JudithaLookup(first)
    IN  IF values = {} THEN st
        ELSE IF "lookup" \in fails THEN [st EXCEPT !.failed = @ \cup {"lookup"}]
        ELSE IF result # NoHit /\ result.score >= 80
        THEN [st EXCEPT !.mention.canonical_value = result.caption,
                        !.mention.resolved_values = @ \cup result.names,
                        !.mention.resolved_schema =
                            IF result.schemata # {}
                            THEN CHOOSE s \in result.schemata : TRUE ELSE @,
                        !.countries = @ \cup result.countries,
                        !.added = @ \cup result.countries]
        ELSE st

\* ------------------------------------------------------------------------
\* Resolution pipeline (analysis/resolve/pipeline.py, analyzer.py).
\* ------------------------------------------------------------------------

\* Analyzer._create_pipeline: the names of the stages, in order.
CreatePipeline(cfg) ==
    (IF cfg.use_rigour THEN <<"rigour">> ELSE <<>>)
    \o (IF cfg.use_juditha_classifier THEN <<"juditha_classifier">> ELSE <<>>)
    \o (IF cfg.use_juditha_validator THEN <<"juditha_validator">> ELSE <<>>)
    \o (IF cfg.use_geonames THEN <<"geonames">> ELSE <<>>)
    \o (IF cfg.use_juditha_lookup THEN <<"juditha_lookup">> ELSE <<>>)

\* stage.process(mention, context) of the stage named `stage`.
ProcessStage(stage, st, o) ==
    CASE stage = "rigour" -> RigourProcess(st, o)
      [] stage = "juditha_classifier" -> JudithaClassifierProcess(st, o)
      [] stage = "juditha_validator" -> JudithaValidatorProcess(st, o)
      [] stage = "geonames" -> GeonamesProcess(st, o)
      [] stage = "juditha_lookup" -> JudithaLookupProcess(st, o)

\* The process call of `stage` that returned st, entered in the trace with
\* the mention it returned.
Traced(stage, st) ==
    [st EXCEPT !.trace = Append(@, [stage |-> stage, mention |-> st.mention])]

\* One process call.
Invoke(stage, st, o) == Traced(stage, ProcessStage(stage, st, o))

RECURSIVE ResolveAllStages(_, _, _, _)

\* After the call of stage i returned st: an exception ends the loop.
ResolveAllAfter(stages, i, st, o) ==
    IF st.raised # None THEN st ELSE ResolveAllStages(stages, i + 1, st, o)

\* The loop of resolve without the test of mention.is_rejected.
ResolveAllStages(stages, i, st, o) ==
    IF i > Len(stages) THEN st
    ELSE ResolveAllAfter(stages, i, Invoke(stages[i], st, o), o)

RECURSIVE ResolveFrom(_, _, _, _)

\* After the call of stage i returned st: an exception ends the loop.
ResolveAfter(stages, i, st, o) ==
    IF st.raised # None THEN st ELSE ResolveFrom(stages, i + 1, st, o)

\* The loop of ResolutionPipeline.resolve from stage i on: it breaks at a
\* rejected mention.
ResolveFrom(stages, i, st, o) ==
    IF i > Len(stages) THEN st
    ELSE IF st.mention.is_rejected THEN st
    ELSE ResolveAfter(stages, i, Invoke(stages[i], st, o), o)

\* resolve that runs every stage, rejected mention or not.
ResolveNoBreak(stages, st, o) == ResolveAllStages(stages, 1, st, o)

\* ResolutionPipeline.resolve(mention, context)
Resolve(stages, st, o) == ResolveFrom(stages, 1, st, o)

\* ------------------------------------------------------------------------
\* Entity factory (analysis/emit/entity_factory.py).
\* ------------------------------------------------------------------------

\* followthemoney.util.make_entity_id(key): a hash of the key.
MakeEntityId(key) == "sha1(" \o key \o ")"

\* EntityProxy.make_id("mention", entity_id, prop_name, key): a hash of the parts.
MakeMentionId(entity_id, prop_name, key) ==
    "sha1(mention|" \o entity_id \o "|" \o prop_name \o "|" \o key \o ")"

\* normality.slugify("iban <IBAN>")
SlugifyIban(iban) ==
    CASE iban = "CH5604835012345678009" -> "iban-ch5604835012345678009"
      [] iban = "CH5604835012345678000" -> "iban-ch5604835012345678000"
      [] OTHER -> None

\* The values schwifty finds to be valid IBANs (length and check digits).
ValidIbans == {"CH5604835012345678009"}

\* A get_iban_country that does not test the validity of the IBAN.
GetIbanCountryUnchecked(value) == SubSeq(value, 1, 2)

\* extract/patterns.get_iban_country: the country code of a valid IBAN.
GetIbanCountry(value) ==
    IF value \in ValidIbans THEN SubSeq(value, 1, 2) ELSE None

\* The cleaning of a country value by entity.add: the lower-case code.
CleanCountry(value) ==
    CASE value = "CH" -> "ch"
      [] OTHER -> value

\* An emitted entity: id, schema and properties; origin is the aggregated
\* group it was made for (not a property of the entity).
Entity(id, schema, origin) ==
    [id |-> id, schema |-> schema, origin |-> origin,
     name |-> {}, proof |-> {}, country |-> {}, contextCountry |-> {},
     resolved |-> {}, document |-> {}, detectedSchema |-> {},
     accountNumber |-> {}, iban |-> {}]

\* The schemata of the ontology: model.get(name) is None for any other name.
OntologySchemata ==
    {"Thing", "Analyzable", "Document", "PlainText", "LegalEntity", "Person",
     "Organization", "Company", "Address", "Mention", "BankAccount"}

NER_TO_SCHEMA == [t \in {"PER", "ORG"} |-> IF t = "PER" THEN "Person" ELSE "Organization"]

NER_TO_PROP_NAME ==
    [t \in {"PER", "ORG", "LOC"} |->
        CASE t = "PER" -> "peopleMentioned"
          [] t = "ORG" -> "companiesMentioned"
          [] t = "LOC" -> "locationMentioned"]

\* clean_name_for_tag; None is "".
CleanNameForTag(name, tag) ==
    LET cleaned == NormalizeName(name)
    IN  IF cleaned = "" THEN ""
        ELSE IF tag = "PER" THEN RemovePersonPrefixes(cleaned)
        ELSE IF tag = "ORG" THEN RemoveOrgPrefixes(cleaned)
        ELSE RemoveObjPrefixes(cleaned)

\* A pick_name that never finds a name.
PickNameNone(values) == None

\* rigour.names.pick_name(list(values)): the best of the names, None for none.
PickName(values) ==
    IF values \ {""} = {} THEN None
    ELSE CHOOSE v \in values \ {""} : \A w \in values \ {""} : Len(v) <= Len(w)

\* Mention.caption; None stands for the ValueError it raises.
Caption(m) ==
    IF m.canonical_value # None THEN m.canonical_value
    ELSE PickName(CurrentValues(m))

\* EntityFactory._get_cleaned_names
GetCleanedNames(m) ==
    {IF m.canonical_value # None THEN m.canonical_value ELSE Caption(m)}
    \cup ({CleanNameForTag(v, m.ner_tag) : v \in m.values} \ {""})
    \cup ({CleanNameForTag(v, m.ner_tag) : v \in m.resolved_values} \ {""})

\* A factory whose resolved entity takes the id of a Mention entity.
CreateResolvedEntityMentionId(m, countries, origin) ==
    IF m.resolved_schema = None THEN <<>>
    ELSE << [Entity(MakeMentionId(m.entity_id, "namesMentioned", m.key),
                    m.resolved_schema, origin) EXCEPT
                !.name = GetCleanedNames(m), !.proof = {m.entity_id}] >>

\* EntityFactory._create_resolved_entity; <<>> is None.
CreateResolvedEntity(m, countries, origin) ==
    IF m.resolved_schema = None THEN <<>>
    ELSE IF GetCleanedNames(m) = {} THEN <<>>
    ELSE LET entity_id == IF m.resolved_entity_id # None
                          THEN m.resolved_entity_id ELSE MakeEntityId(m.key)
             entity == [Entity(entity_id, m.resolved_schema, origin) EXCEPT
                           !.name = GetCleanedNames(m),
                           !.proof = {m.entity_id}]
         IN  << IF m.resolved_schema # "Address" /\ countries # {}
                THEN [entity EXCEPT !.country = countries]
                ELSE entity >>

\* EntityFactory._create_mention_entity; <<>> is None.
CreateMentionEntity(m, countries, origin) ==
    IF m.ner_tag \notin DOMAIN NER_TO_SCHEMA THEN <<>>
    ELSE IF GetCleanedNames(m) = {} THEN <<>>
    ELSE LET prop_name == IF m.ner_tag \in DOMAIN NER_TO_PROP_NAME
                          THEN NER_TO_PROP_NAME[m.ner_tag] ELSE m.tag
         IN  << [Entity(MakeMentionId(m.entity_id, prop_name, m.key), "Mention", origin)
                    EXCEPT !.resolved = {MakeEntityId(m.key)},
                           !.document = {m.entity_id},
                           !.name = GetCleanedNames(m),
                           !.detectedSchema = {NER_TO_SCHEMA[m.ner_tag]},
                           !.contextCountry = countries] >>

\* The exception that leaves EntityFactory.create_from_mention, None if it
\* returns: Mention.caption raises ValueError when pick_name finds no name,
\* make_entity raises InvalidData when the schema is not in the ontology.
FactoryRaises(m) ==
    IF m.is_rejected THEN None
    ELSE IF m.resolved_schema = None /\ m.ner_tag \notin DOMAIN NER_TO_SCHEMA
    THEN None
    ELSE IF Caption(m) = None THEN "ValueError"
    ELSE IF m.resolved_schema # None /\ m.resolved_schema \notin OntologySchemata
    THEN "InvalidData"
    ELSE None

\* EntityFactory.create_from_mention: the entities it yields.
CreateFromMention(m, countries, origin) ==
    IF m.is_rejected THEN <<>>
    ELSE IF m.resolved_schema # None THEN CreateResolvedEntity(m, countries, origin)
    ELSE CreateMentionEntity(m, countries, origin)

\* A factory whose bank account carries no proof.
CreateBankAccountNoProof(iban, country, proof_entity_id, origin) ==
    [Entity(SlugifyIban(iban), "BankAccount", origin) EXCEPT
        !.accountNumber = {iban}, !.iban = {iban},
        !.country = {CleanCountry(country)}]

\* EntityFactory.create_bank_account
CreateBankAccount(iban, country, proof_entity_id, origin) ==
    [Entity(SlugifyIban(iban), "BankAccount", origin) EXCEPT
        !.proof = {proof_entity_id}, !.accountNumber = {iban},
        !.iban = {iban}, !.country = {CleanCountry(country)}]

\* ------------------------------------------------------------------------
\* Confidence filter (analysis/aggregate/confidence.py) and iter_results.
\* ------------------------------------------------------------------------

\* ConfidenceScorer.score on one value: the top label of the type model and
\* the confidence in hundredths.
Score(v) ==
    CASE v = "Pudel von Nirgendwo" -> [label |-> "trash", confidence |-> 99]
      [] v = "Christina" -> [label |-> "PER", confidence |-> 50]
      [] v = "New York City" -> [label |-> "LOC", confidence |-> 96]
      [] v = "the Circular Plastics Alliance" -> [label |-> "ORG", confidence |-> 91]
      [] OTHER -> [label |-> "PER", confidence |-> 98]

\* settings.ner_type_model_confidence, in hundredths.
ConfidenceThreshold == 85

\* ConfidenceScorer.is_valid looking at the labels only.
IsValidNoThreshold(values) == \A v \in values : Score(v).label # "trash"

\* ConfidenceScorer.is_valid
IsValid(values) ==
    IF ConfidenceThreshold = 0 THEN TRUE
    ELSE \A v \in values :
            Score(v).label # "trash" /\ Score(v).confidence >= ConfidenceThreshold

\* Whether Aggregator.iter_results yields the group g.
IterResultsYields(cfg, g) ==
    /\ g.values # {}
    /\ (cfg.use_confidence /\ g.tag \in NER_TAGS) => IsValid(g.values)

\* ------------------------------------------------------------------------
\* Annotator (annotate.py).
\* ------------------------------------------------------------------------

MENTION_PROPS ==
    {"namesMentioned", "peopleMentioned", "companiesMentioned", "emailMentioned",
     "phoneMentioned", "ibanMentioned", "locationMentioned"}

\* Annotation
Annotation(value, names, schemata, props) ==
    [value |-> value, names |-> names, schemata |-> schemata, props |-> props]

\* An Annotator.add whose annotation replaces the one held for the value.
AnnotatorAddReplace(annotations, a) ==
    IF a.props \cap MENTION_PROPS = {} THEN annotations
    ELSE [v \in DOMAIN annotations \cup {a.value} |->
            IF v # a.value THEN annotations[v] ELSE a]

\* Annotator.add: annotations is the dict value -> Annotation.
AnnotatorAdd(annotations, a) ==
    IF a.props \cap MENTION_PROPS = {} THEN annotations
    ELSE [v \in DOMAIN annotations \cup {a.value} |->
            IF v # a.value THEN annotations[v]
            ELSE IF v \in DOMAIN annotations
                 THEN [annotations[v] EXCEPT !.names = @ \cup a.names,
                                             !.schemata = @ \cup a.schemata,
                                             !.props = @ \cup a.props]
                 ELSE a]

\* schema.is_a("LegalEntity") for the schemata of the model.
IsLegalEntity(schema) == schema \in {"Person", "Organization", "Company", "LegalEntity"}

\* get_extend(schema)
GetExtend(schema) == IF schema = "LegalEntity" THEN {schema} ELSE {schema, "LegalEntity"}

\* Annotation.from_entity(value, e)
FromEntity(value, e) ==
    Annotation(value, e.name, GetExtend(e.schema),
               {"namesMentioned"}
               \cup (IF e.schema \in {"Organization", "Company"}
                     THEN {"companiesMentioned"} ELSE {})
               \cup (IF e.schema = "Person" THEN {"peopleMentioned"} ELSE {}))

\* Annotator.add for each annotation of the sequence.
RECURSIVE AnnotatorAddAll(_, _)
AnnotatorAddAll(annotations, todo) ==
    IF todo = <<>> THEN annotations
    ELSE AnnotatorAddAll(AnnotatorAdd(annotations, Head(todo)), Tail(todo))

\* SKIP_CHARS
SKIP_CHARS == {"(", ")", "[", "]"}

\* text from position i on with every character of SKIP_CHARS as a space.
RECURSIVE ReplaceSkipChars(_, _)
ReplaceSkipChars(text, i) ==
    IF i > Len(text) THEN ""
    ELSE (IF Char(text, i) \in SKIP_CHARS THEN " " ELSE Char(text, i))
         \o ReplaceSkipChars(text, i + 1)

\* clean_text: collapse_spaces trims and collapses, "" stands in for None.
CleanText(text) ==
    CollapseFrom(StripRight(StripLeft(ReplaceSkipChars(text, 1))), 1)

\* Annotation.is_name
IsName(a) == a.props \cap {"companiesMentioned", "peopleMentioned", "namesMentioned"} # {}

\* Annotation._names
AnnotationNames(a) == IF IsName(a) THEN {a.value} \cup a.names ELSE {}

\* Annotation._props
AnnotationProps(a) == IF IsName(a) THEN a.props \cup {"namesMentioned"} ELSE a.props

\* Annotation._schemata
AnnotationSchemata(a) ==
    IF ~IsName(a) THEN {}
    ELSE IF a.schemata # {} THEN a.schemata
    ELSE IF "peopleMentioned" \in a.props THEN GetExtend("Person")
    ELSE IF "companiesMentioned" \in a.props THEN GetExtend("Organization")
    ELSE {}

\* qs(fp) for the fingerprints make_fingerprints gives the name.
NameFingerprints(name) ==
    CASE name = "Jane Doe" -> {"doe+jane"}
      [] name = "Doe, Jane" -> {"doe+jane"}
      [] name = "jane" -> {"jane"}
      [] OTHER -> {}

\* get_symbols for the name.
NameSymbols(name) ==
    CASE name = "Jane Doe" -> {"1682564", "5407747"}
      [] name = "Doe, Jane" -> {"1682564", "5407747"}
      [] name = "jane" -> {"1682564"}
      [] OTHER -> {}

\* The strings the parts of a query are made of, each list as sorted() has it.
FingerprintList == <<"doe+jane", "jane">>
PropList ==
    <<"companiesMentioned", "emailMentioned", "ibanMentioned", "locationMentioned",
      "namesMentioned", "peopleMentioned", "phoneMentioned">>
SymbolList == <<"1682564", "5407747">>
SchemaList == <<"Company", "LegalEntity", "Organization", "Person">>

\* The parts prefix_<x> for the x of the sorted list that are in the set.
RECURSIVE Parts(_, _, _)
Parts(prefix, list, set) ==
    IF list = <<>> THEN <<>>
    ELSE (IF Head(list) \in set THEN <<prefix \o Head(list)>> ELSE <<>>)
         \o Parts(prefix, Tail(list), set)

\* "&".join(parts)
RECURSIVE JoinParts(_)
JoinParts(parts) ==
    IF parts = <<>> THEN ""
    ELSE IF Len(parts) = 1 THEN parts[1]
    ELSE parts[1] \o "&" \o JoinParts(Tail(parts))

\* Annotation.get_query: "f" < "p" < "q" < "s" orders the sorted parts.
GetQuery(a) ==
    JoinParts(
        Parts("f_", FingerprintList,
              UNION {NameFingerprints(n) : n \in AnnotationNames(a)})
        \o Parts("p_", PropList, AnnotationProps(a))
        \o Parts("q_", SymbolList,
                 UNION {NameSymbols(n) : n \in AnnotationNames(a)})
        \o Parts("s_", SchemaList, AnnotationSchemata(a)))

\* Annotation.repl, None for an empty query.
AnnotationRepl(a) ==
    IF GetQuery(a) = "" THEN None
    ELSE "[" \o a.value \o "](" \o GetQuery(a) \o ")"

\* The characters \w matches.
WordChars == Letters \cup Digits \cup {"_"}

\* Whether position i of the text holds a word character.
IsWord(text, i) == i >= 1 /\ i <= Len(text) /\ Char(text, i) \in WordChars

\* \b in front of position i.
Boundary(text, i) == IsWord(text, i - 1) # IsWord(text, i)

\* The first position from i on of a character of `chars` in the text, 0 if
\* there is none.
Find(text, chars, i) ==
    IF \E j \in i..Len(text) : Char(text, j) \in chars
    THEN CHOOSE j \in i..Len(text) :
            /\ Char(text, j) \in chars
            /\ \A k \in i..(j - 1) : Char(text, k) \notin chars
    ELSE 0

\* Whether position i of the text holds the character c.
At(text, i, c) == i >= 1 /\ i <= Len(text) /\ Char(text, i) = c

\* [^\[\]]*\] from position i on: the next bracket is a closing one.
ClosesBracket(text, i) == At(text, Find(text, {"[", "]"}, i), "]")

\* PATTERN_RE for the value matches at position i of the text.
MatchesAt(text, value, i) ==
    /\ i + Len(value) - 1 <= Len(text)
    /\ SubSeq(text, i, i + Len(value) - 1) = value
    /\ ~(i > 1 /\ Char(text, i - 1) = "[")
    /\ Boundary(text, i)
    /\ Boundary(text, i + Len(value))
    /\ ~ClosesBracket(text, i + Len(value))

\* The first position from i on where PATTERN_RE for the value matches, 0 if
\* there is none.
FirstMatch(text, value, i) ==
    IF \E j \in i..Len(text) : MatchesAt(text, value, j)
    THEN CHOOSE j \in i..Len(text) :
            /\ MatchesAt(text, value, j)
            /\ \A k \in i..(j - 1) : ~MatchesAt(text, value, k)
    ELSE 0

\* re.sub(pat, repl, text) from position i on: the matches do not overlap.
RECURSIVE Sub(_, _, _, _)
Sub(text, value, repl, i) ==
    IF FirstMatch(text, value, i) = 0 THEN SubSeq(text, i, Len(text))
    ELSE SubSeq(text, i, FirstMatch(text, value, i) - 1) \o repl
         \o Sub(text, value, repl, FirstMatch(text, value, i) + Len(value))

\* Annotation.annotate
Annotate(a, text) ==
    IF AnnotationRepl(a) = None THEN text
    ELSE Sub(text, a.value, AnnotationRepl(a), 1)

\* The keys of Annotator.annotations in the order the adds inserted them.
RECURSIVE AnnotationOrder(_, _)
AnnotationOrder(seen, todo) ==
    IF todo = <<>> THEN <<>>
    ELSE IF Head(todo).props \cap MENTION_PROPS = {} \/ Head(todo).value \in seen
    THEN AnnotationOrder(seen, Tail(todo))
    ELSE <<Head(todo).value>>
         \o AnnotationOrder(seen \cup {Head(todo).value}, Tail(todo))

\* Annotator.annotate_text over the values of the dict, in its order.
RECURSIVE AnnotateText(_, _, _)
AnnotateText(anns, keys, text) ==
    IF keys = <<>> THEN text
    ELSE AnnotateText(anns, Tail(keys), Annotate(anns[Head(keys)], text))

\* Annotator.get_texts for one text of the entity: what it yields.
GetTexts(anns, keys, text) ==
    LET annotated == AnnotateText(anns, keys, CleanText(text))
    IN  IF annotated = "" THEN <<>> ELSE <<annotated>>

\* ------------------------------------------------------------------------
\* Analyzer (analysis/analyzer.py).
\* ------------------------------------------------------------------------

VARIABLES
    cfg,            \* the arguments of Analyzer.__init__ and the source entity
    rank,           \* the order in which this process iterates sets of strings
    pc,             \* "feed", "flush", "done", or "failed" once flush raised
    idx,            \* position of iter_results in Aggregator.results
    countries,      \* Analyzer.countries (shared with the ResolutionContext)
    emitted,        \* the entities flush has yielded, in order
    entity,         \* the mention properties of the output entity
    annotations,    \* Annotator.annotations
    results_count,  \* the local results_count of flush
    geoCache,       \* the lru_cache of refine_location
    classifyCache,  \* the lru_cache of classify_mention_juditha
    raised,         \* the exception that left flush, None for none
    flog            \* per group flush went through: what was done with it

analyzerVars == <<cfg, rank, pc, idx, countries, emitted, entity, annotations,
                  results_count, geoCache, classifyCache, raised, flog>>

\* Analyzer.TAG_TO_PROP_NAME
TAG_TO_PROP_NAME ==
    [t \in {TAG_PER, TAG_ORG, TAG_LOC} |->
        CASE t = TAG_PER -> "namesMentioned"
          [] t = TAG_ORG -> "companiesMentioned"
          [] t = TAG_LOC -> "locationMentioned"]

\* pattern_prop_map of _handle_pattern_result
PatternProp ==
    [t \in {"EMAIL", "PHONE", TAG_IBAN} |->
        CASE t = "EMAIL" -> "emailMentioned"
          [] t = "PHONE" -> "phoneMentioned"
          [] t = TAG_IBAN -> "ibanMentioned"]

\* The properties flush fills in on the output entity.
NoProps ==
    [namesMentioned |-> {}, companiesMentioned |-> {}, locationMentioned |-> {},
     emailMentioned |-> {}, phoneMentioned |-> {}, ibanMentioned |-> {},
     country |-> {}]

\* self.entity.add(prop_name, values)
EntityAdd(e, prop_name, values) ==
    [p \in DOMAIN e |-> IF p = prop_name THEN e[p] \cup values ELSE e[p]]

\* The state flush works on, as one record.
FlushState ==
    [countries |-> countries, emitted |-> emitted, entity |-> entity,
     annotations |-> annotations, results_count |-> results_count,
     geoCache |-> geoCache, classifyCache |-> classifyCache,
     raised |-> raised, flog |-> flog]

\* What flush did with one group.
FlushLog(g, outcome, mention, trace, failed, added) ==
    [group |-> <<g.key, g.tag>>, outcome |-> outcome, mention |-> mention,
     trace |-> trace, failed |-> failed, added |-> added]

\* The bank accounts _handle_pattern_result yields for the IBANs of `todo`.
RECURSIVE BankAccounts(_, _, _)
BankAccounts(todo, proof_entity_id, origin) ==
    IF todo = <<>> THEN <<>>
    ELSE (IF GetIbanCountry(Head(todo)) # None
          THEN <<CreateBankAccount(Head(todo), GetIbanCountry(Head(todo)),
                                   proof_entity_id, origin)>>
          ELSE <<>>)
         \o BankAccounts(Tail(todo), proof_entity_id, origin)

\* The annotations add_tag(prop, value) registers for the values of `todo`.
RECURSIVE TagAnnotations(_, _)
TagAnnotations(prop, todo) ==
    IF todo = <<>> THEN <<>>
    ELSE <<Annotation(Head(todo), {}, {}, {prop})>> \o TagAnnotations(prop, Tail(todo))

\* The annotations add_mention(value, e) registers for the values of `todo`.
RECURSIVE MentionAnnotations(_, _)
MentionAnnotations(e, todo) ==
    IF todo = <<>> THEN <<>>
    ELSE <<FromEntity(Head(todo), e)>> \o MentionAnnotations(e, Tail(todo))

\* Analyzer._handle_pattern_result followed by `results_count += 1`.
HandlePatternResult(c, fs, g, o) ==
    LET lk == <<g.key, g.tag>>
        done == FlushLog(g, "pattern", <<>>, <<>>, {}, {})
    IN  IF g.tag = "COUNTRY"
        THEN [fs EXCEPT !.countries = @ \cup g.values,
                        !.results_count = @ + 1,
                        !.flog = Append(@, done)]
        ELSE [fs EXCEPT
                !.emitted =
                    IF g.tag = TAG_IBAN
                    THEN @ \o BankAccounts(IterList(g.values, o), c.entity_id, lk)
                    ELSE @,
                !.entity =
                    IF g.tag \in DOMAIN PatternProp
                    THEN EntityAdd(@, PatternProp[g.tag], g.values) ELSE @,
                !.annotations =
                    IF c.annotate /\ g.tag \in DOMAIN PatternProp
                    THEN AnnotatorAddAll(@, TagAnnotations(PatternProp[g.tag],
                                                           IterList(g.values, o)))
                    ELSE @,
                !.results_count = @ + 1,
                !.flog = Append(@, done)]

\* Analyzer._annotate_mention(mention, entity); created is <<>> for None.
AnnotateMention(c, anns, m, created, o) ==
    IF ~c.annotate THEN anns
    ELSE IF created # <<>> /\ IsLegalEntity(created[1].schema)
    THEN AnnotatorAddAll(anns, MentionAnnotations(created[1],
                                                  IterList(CurrentValues(m), o)))
    ELSE IF m.ner_tag \in DOMAIN NER_TO_PROP_NAME
    THEN AnnotatorAddAll(anns, TagAnnotations(NER_TO_PROP_NAME[m.ner_tag],
                                              IterList(m.values, o)))
    ELSE anns

\* A flush that goes on with a mention whatever its state.
SkipMentionNever(m) == FALSE

\* `if mention.is_rejected: continue` of flush.
SkipMention(m) == m.is_rejected

\* The rest of the loop body of flush once create_from_mention yielded
\* `created`: annotate, fill in the output entity, count.
EmitCreated(c, fs, g, st, o, created) ==
    [fs EXCEPT
        !.emitted = @ \o created,
        !.annotations = AnnotateMention(c, @, st.mention, created, o),
        !.entity = IF st.mention.ner_tag \in DOMAIN TAG_TO_PROP_NAME
                   THEN EntityAdd(@, TAG_TO_PROP_NAME[st.mention.ner_tag],
                                  {NormalizeName(v) :
                                      v \in CurrentValues(st.mention) \ {""}} \ {""})
                   ELSE @,
        !.results_count = @ + 1,
        !.flog = Append(@, FlushLog(g, "emitted", <<st.mention>>, st.trace,
                                    st.failed, st.added))]

\* flush with what the stages did to the context and the caches.
AfterStages(fs, st) ==
    [fs EXCEPT !.countries = st.countries,
               !.geoCache = st.geoCache,
               !.classifyCache = st.classifyCache]

\* What flush does once resolve ended with st: its exception leaves flush;
\* a rejected mention is skipped; an exception of the factory leaves flush;
\* the others are emitted.
EmitMention(c, fs, g, st, o) ==
    IF st.raised # None
    THEN [AfterStages(fs, st) EXCEPT
            !.raised = st.raised,
            !.flog = Append(@, FlushLog(g, "raised", <<st.mention>>, st.trace,
                                        st.failed, st.added))]
    ELSE IF SkipMention(st.mention)
    THEN [AfterStages(fs, st) EXCEPT
            !.flog = Append(@, FlushLog(g, "rejected", <<st.mention>>, st.trace,
                                        st.failed, st.added))]
    ELSE IF FactoryRaises(st.mention) # None
    THEN [AfterStages(fs, st) EXCEPT
            !.raised = FactoryRaises(st.mention),
            !.flog = Append(@, FlushLog(g, "unconstructed", <<st.mention>>,
                                        st.trace, st.failed, st.added))]
    ELSE EmitCreated(c, AfterStages(fs, st), g, st, o,
                     CreateFromMention(st.mention, st.countries, <<g.key, g.tag>>))

\* The body of the loop of flush for the aggregated result g.
FlushGroup(c, fs, g, o) ==
    IF ~IterResultsYields(c, g)
    THEN [fs EXCEPT !.flog = Append(@, FlushLog(g, "filtered", <<>>, <<>>, {}, {}))]
    ELSE IF g.tag \in {TAG_IBAN, "EMAIL", "PHONE", "COUNTRY"}
    THEN HandlePatternResult(c, fs, g, o)
    ELSE EmitMention(c, fs, g,
                     Resolve(CreatePipeline(c),
                             [mention |-> FromAggregated(g.key, g.tag, g.values,
                                                         c.entity_id, g.sources),
                              countries |-> fs.countries,
                              geoCache |-> fs.geoCache,
                              classifyCache |-> fs.classifyCache,
                              raised |-> None, trace |-> <<>>, added |-> {},
                              failed |-> {}],
                             o),
                     o)

\* The loop of flush over the groups `keys` of the aggregator, from fs on,
\* with no failing call; it ends at an exception.
RECURSIVE FlushAll(_, _, _, _, _)
FlushAll(c, fs, res, keys, o) ==
    IF keys = <<>> \/ fs.raised # None THEN fs
    ELSE FlushAll(c, FlushGroup(c, fs, res[Head(keys)], o), res, Tail(keys), o)

\* origin of the output entity in `emitted`.
OutputOrigin == <<None, None>>

\* The end of flush: the countries go to the output entity, which is
\* yielded if results_count is not zero.
Finish(c, fs) ==
    [fs EXCEPT
        !.entity = EntityAdd(@, "country", fs.countries),
        !.emitted = IF fs.results_count # 0
                    THEN Append(@, Entity(c.entity_id, c.schema, OutputOrigin))
                    ELSE @]

\* The state flush works on in a fresh process with a fresh Analyzer.
FreshFlushState ==
    [countries |-> {}, emitted |-> <<>>, entity |-> NoProps,
     annotations |-> <<>>, results_count |-> 0, geoCache |-> <<>>,
     classifyCache |-> <<>>, raised |-> None, flog |-> <<>>]

\* Analyzer.__init__ in a fresh process: nothing extracted, nothing emitted.
AnalyzerInit ==
    /\ pc = "feed"
    /\ idx = 1
    /\ countries = FreshFlushState.countries
    /\ emitted = FreshFlushState.emitted
    /\ entity = FreshFlushState.entity
    /\ annotations = FreshFlushState.annotations
    /\ results_count = FreshFlushState.results_count
    /\ geoCache = FreshFlushState.geoCache
    /\ classifyCache = FreshFlushState.classifyCache
    /\ raised = FreshFlushState.raised
    /\ flog = FreshFlushState.flog

\* The strings of the model, in one iteration order.
Strings ==
    << "Angela Merkel", "ANGELA MERKEL", "Mrs. Angela Merkel",
       "the Circular Plastics Alliance", "Circular Plastics Alliance",
       "New York City", "Pudel von Nirgendwo", "Christina", "Acme Holdings Ltd",
       "de", "us", "CH5604835012345678009", "CH5604835012345678000",
       "info@acme.eu", "Morgan Stanley Rothschild", "Michael Holding" >>

\* The iteration orders a process may have.
Rankings == {Strings, [i \in 1..Len(Strings) |-> Strings[Len(Strings) + 1 - i]]}

\* The Analyzer with every flag at its default, on an entity with an id.
DefaultConfig ==
    [use_confidence |-> TRUE, use_rigour |-> TRUE,
     use_juditha_classifier |-> TRUE, use_juditha_validator |-> TRUE,
     use_geonames |-> TRUE, use_juditha_lookup |-> TRUE, annotate |-> TRUE,
     entity_id |-> "doc1", schema |-> "PlainText"]

\* The Analyzers of the model: every combination of the confidence filter
\* and the stage flags on an annotated entity with an id, and the default
\* flags without annotation or on a source entity without id.
Configs ==
    [use_confidence : BOOLEAN, use_rigour : BOOLEAN,
     use_juditha_classifier : BOOLEAN, use_juditha_validator : BOOLEAN,
     use_geonames : BOOLEAN, use_juditha_lookup : BOOLEAN, annotate : {TRUE},
     entity_id : {"doc1"}, schema : {"PlainText"}]
    \cup {[DefaultConfig EXCEPT !.annotate = FALSE],
          [DefaultConfig EXCEPT !.entity_id = None]}

\* The extraction results feed hands to the aggregator.
FeedResults ==
    { Result("Angela Merkel", TAG_PER, "spacy", <<>>),
      Result("ANGELA MERKEL", TAG_PER, "spacy", <<>>),
      Result("the Circular Plastics Alliance", TAG_ORG, "spacy", <<>>),
      Result("New York City", TAG_LOC, "spacy", <<>>),
      Result("Christina", TAG_LOC, "spacy", <<>>),
      Result("Pudel von Nirgendwo", TAG_PER, "spacy", <<>>),
      Result("Acme Holdings Ltd", TAG_ORG, "spacy", <<>>),
      Result("de", TAG_COUNTRY, "spacy", <<>>),
      Result("CH5604835012345678009", TAG_IBAN, "pattern", <<>>),
      Result("CH5604835012345678000", TAG_IBAN, "pattern", <<>>) }

VARIABLES
    doc,         \* feed: the text chunks of the source entity
    chunk,       \* feed: index of the chunk the loop of feed is at
    phase,       \* feed: where feed is within the chunk
    pending,     \* feed: results the running extractor has still to yield
    failing,     \* feed: the running extractor raises after these results
    ran,         \* feed: the extractor runs that ended, with their outcome
    tasks,       \* per analyzer task: its Analyzer and where it is
    spacyCache,  \* the lru_cache of spacy._load_model: the names it holds
    loads,       \* per model: how often it was initialized in this process
    call         \* <<c>>: the latest call of a function, see Call

feedVars == <<doc, chunk, phase, pending, failing, ran>>
loadVars == <<tasks, spacyCache, loads>>
otherVars == <<feedVars, loadVars, call>>

\* feed: one result of an extractor goes to the aggregator.
Feed(r) ==
    /\ pc = "feed"
    /\ accepted_count + rejected_count < MaxFeed
    /\ AggAdd(r)
    /\ UNCHANGED <<analyzerVars, otherVars>>

\* A flush that is entered without the test of the id.
FlushStartUnchecked ==
    /\ pc = "feed"
    /\ pc' = "flush"
    /\ idx' = 1
    /\ UNCHANGED <<cfg, rank, countries, emitted, entity, annotations,
                   results_count, geoCache, classifyCache, flog, raised>>
    /\ UNCHANGED <<aggVars, otherVars>>

\* flush is entered: it raises ValueError for an entity without id.
FlushStart ==
    /\ pc = "feed"
    /\ pc' = IF cfg.entity_id = None THEN "failed" ELSE "flush"
    /\ raised' = IF cfg.entity_id = None THEN "ValueError" ELSE raised
    /\ idx' = 1
    /\ UNCHANGED <<cfg, rank, countries, emitted, entity, annotations,
                   results_count, geoCache, classifyCache, flog>>
    /\ UNCHANGED <<aggVars, otherVars>>

\* The external calls that fail while one group is flushed: none, or one.
Failures == {{}} \cup {{x} : x \in Externals}

\* One iteration of the loop of flush; the calls in `fails` fail during it.
FlushStep ==
    /\ pc = "flush"
    /\ idx <= Len(order)
    /\ \E fails \in Failures :
          \E n \in {FlushGroup(cfg, FlushState, results[order[idx]],
                               [fails |-> fails, rank |-> rank])} :
              /\ countries' = n.countries
              /\ emitted' = n.emitted
              /\ entity' = n.entity
              /\ annotations' = n.annotations
              /\ results_count' = n.results_count
              /\ geoCache' = n.geoCache
              /\ classifyCache' = n.classifyCache
              /\ raised' = n.raised
              /\ flog' = n.flog
              /\ pc' = IF n.raised # None THEN "failed" ELSE "flush"
    /\ idx' = idx + 1
    /\ UNCHANGED <<cfg, rank>>
    /\ UNCHANGED <<aggVars, otherVars>>

\* flush leaves its loop and ends.
FlushFinish ==
    /\ pc = "flush"
    /\ idx > Len(order)
    /\ entity' = Finish(cfg, FlushState).entity
    /\ emitted' = Finish(cfg, FlushState).emitted
    /\ pc' = "done"
    /\ UNCHANGED <<cfg, rank, idx, countries, annotations, results_count,
                   geoCache, classifyCache, raised, flog>>
    /\ UNCHANGED <<aggVars, otherVars>>

\* ------------------------------------------------------------------------
\* Analyzer.feed over the chunks of a text (analysis/analyzer.py 189-222).
\* ------------------------------------------------------------------------

\* The entities the NER model of the extractor finds in a chunk, with the
\* labels of the model.
ModelEntities(text) ==
    CASE text = "Das ist der Pudel von Angela Merkel." ->
            << [label |-> "MISC", text |-> "der Pudel"],
               [label |-> "PER", text |-> "Angela Merkel"],
               [label |-> "PER", text |-> "Merkel"] >>
      [] text = "Acme Holdings Ltd, New York City, info@acme.eu" ->
            << [label |-> "ORG", text |-> "Acme Holdings Ltd"],
               [label |-> "GPE", text |-> "New York City"] >>
      [] text = "IBAN CH5604835012345678009 since 12 March 2021" ->
            << [label |-> "DATE", text |-> "12 March 2021"] >>
      [] OTHER -> <<>>

\* The results of make_ner_result for the entities `todo`.
RECURSIVE NerResults(_, _)
NerResults(todo, source) ==
    IF todo = <<>> THEN <<>>
    ELSE MakeNerResult(Head(todo).label, Head(todo).text, source)
         \o NerResults(Tail(todo), source)

\* The results the NER extractor yields for a chunk.
NerOf(text) == NerResults(ModelEntities(text), "spacy")

\* The results the pattern extractor yields for a chunk: each cleaned match
\* of a pattern, followed by the countries its type hints at.
PatternsOf(text) ==
    CASE text = "Acme Holdings Ltd, New York City, info@acme.eu" ->
            << Result("info@acme.eu", TAG_EMAIL, "pattern", <<>>) >>
      [] text = "IBAN CH5604835012345678009 since 12 March 2021" ->
            << Result("CH5604835012345678009", TAG_IBAN, "pattern", <<>>),
               Result("ch", TAG_COUNTRY, "pattern", <<>>) >>
      [] OTHER -> <<>>

\* The chunks a text can have.
Chunks ==
    {"Das ist der Pudel von Angela Merkel.",
     "Acme Holdings Ltd, New York City, info@acme.eu",
     "IBAN CH5604835012345678009 since 12 March 2021",
     "Lorem ipsum dolor sit amet."}

\* The texts of the model: up to MaxChunks chunks.
Documents == UNION {[1..n -> Chunks] : n \in 1..MaxChunks}

\* feed has not begun.
FeedInit ==
    /\ chunk = 1
    /\ phase = "ner"
    /\ pending = <<>>
    /\ failing = FALSE
    /\ ran = <<>>

\* self.ner_extractor.extract(context) is entered for the chunk: it yields
\* its results, or the first k of them and then raises.
NerStart ==
    /\ phase = "ner"
    /\ chunk <= Len(doc)
    /\ \E raises \in BOOLEAN :
          \E k \in 0..Len(NerOf(doc[chunk])) :
              /\ failing' = raises
              /\ pending' = IF raises THEN SubSeq(NerOf(doc[chunk]), 1, k)
                            ELSE NerOf(doc[chunk])
    /\ phase' = "ner_yield"
    /\ UNCHANGED <<doc, chunk, ran>>
    /\ UNCHANGED <<aggVars, analyzerVars, loadVars, call>>

\* The body of either for loop of feed: the next result is added.
Yield ==
    /\ phase \in {"ner_yield", "pattern_yield"}
    /\ pending # <<>>
    /\ AggAdd(Head(pending))
    /\ pending' = Tail(pending)
    /\ UNCHANGED <<doc, chunk, phase, failing, ran>>
    /\ UNCHANGED <<analyzerVars, loadVars, call>>

\* The NER extractor is exhausted, or its exception arrives in feed, which
\* does not catch it.
NerEnd ==
    /\ phase = "ner_yield"
    /\ pending = <<>>
    /\ phase' = IF failing THEN "raised" ELSE "pattern"
    /\ ran' = Append(ran, [chunk |-> chunk, extractor |-> "ner",
                           outcome |-> IF failing THEN "raised" ELSE "ok"])
    /\ failing' = FALSE
    /\ UNCHANGED <<doc, chunk, pending>>
    /\ UNCHANGED <<aggVars, analyzerVars, loadVars, call>>

\* self.pattern_extractor.extract(context) is entered for the chunk.
PatternStart ==
    /\ phase = "pattern"
    /\ pending' = PatternsOf(doc[chunk])
    /\ phase' = "pattern_yield"
    /\ UNCHANGED <<doc, chunk, failing, ran>>
    /\ UNCHANGED <<aggVars, analyzerVars, loadVars, call>>

\* The pattern extractor is exhausted: feed goes to the next chunk.
PatternEnd ==
    /\ phase = "pattern_yield"
    /\ pending = <<>>
    /\ ran' = Append(ran, [chunk |-> chunk, extractor |-> "pattern",
                           outcome |-> "ok"])
    /\ chunk' = chunk + 1
    /\ phase' = IF chunk + 1 > Len(doc) THEN "done" ELSE "ner"
    /\ UNCHANGED <<doc, pending, failing>>
    /\ UNCHANGED <<aggVars, analyzerVars, loadVars, call>>

\* ------------------------------------------------------------------------
\* Lazy loading of the models (extract/spacy.py, bert.py, flair.py,
\* gliner.py, aggregate/confidence.py).  A task analyzes entities one after
\* the other, each with an Analyzer of its own (logic.analyze_entity).
\* ------------------------------------------------------------------------

Tasks == 1..MaxTasks

\* Analyzer._create_ner_extractor: the engines.
Engines == {"spacy", "bert", "flair", "gliner"}

\* The spaCy model of the default language.
SpacyModel == "spacy:default"

\* The models a process can initialize.
Models == {SpacyModel, "bert", "flair", "gliner", "fasttext"}

\* No Analyzer yet, nothing loaded.
LoadInit ==
    /\ tasks = [t \in Tasks |->
                  [pc |-> "idle", engine |-> "spacy", field |-> FALSE,
                   scorer |-> FALSE, runs |-> 0]]
    /\ spacyCache = {}
    /\ loads = [m \in Models |-> 0]

\* Analyzer.__init__: a new extractor and a new ConfidenceScorer, their lazy
\* fields None.
NewAnalyzer(t, e) ==
    /\ tasks[t].pc = "idle"
    /\ tasks[t].runs < MaxRuns
    /\ tasks' = [tasks EXCEPT ![t] = [pc |-> "ner", engine |-> e, field |-> FALSE,
                                      scorer |-> FALSE, runs |-> @.runs + 1]]
    /\ UNCHANGED <<spacyCache, loads>>
    /\ UNCHANGED <<aggVars, analyzerVars, feedVars, call>>

\* extract of a BertExtractor, FlairExtractor or GlinerExtractor on one
\* chunk: the model is initialized if the field of this instance is None;
\* more chunks may follow.
GetPipeline(t) ==
    /\ tasks[t].pc = "ner"
    /\ tasks[t].engine # "spacy"
    /\ loads' = IF tasks[t].field THEN loads
                ELSE [loads EXCEPT ![tasks[t].engine] = @ + 1]
    /\ \E more \in BOOLEAN :
          tasks' = [tasks EXCEPT ![t].field = TRUE,
                                 ![t].pc = IF more THEN "ner" ELSE "score"]
    /\ UNCHANGED spacyCache
    /\ UNCHANGED <<aggVars, analyzerVars, feedVars, call>>

\* _load_model(model) of a SpacyExtractor reaches the lru_cache: a hit
\* returns the model, a miss goes on to the call of spacy.load.
SpacyLookup(t) ==
    /\ tasks[t].pc = "ner"
    /\ tasks[t].engine = "spacy"
    /\ \E more \in BOOLEAN :
          tasks' = [tasks EXCEPT ![t].pc = IF SpacyModel \notin spacyCache
                                           THEN "spacy_load"
                                           ELSE IF more THEN "ner" ELSE "score"]
    /\ UNCHANGED <<spacyCache, loads>>
    /\ UNCHANGED <<aggVars, analyzerVars, feedVars, call>>

\* spacy.load(model) after a miss, and the lru_cache stores the result.
SpacyLoad(t) ==
    /\ tasks[t].pc = "spacy_load"
    /\ loads' = [loads EXCEPT ![SpacyModel] = @ + 1]
    /\ spacyCache' = spacyCache \cup {SpacyModel}
    /\ tasks' = [tasks EXCEPT ![t].pc = "score"]
    /\ UNCHANGED <<aggVars, analyzerVars, feedVars, call>>

\* ConfidenceScorer.model at the first is_valid of this Aggregator; the
\* entity is done afterwards.
ScorerModel(t) ==
    /\ tasks[t].pc = "score"
    /\ loads' = IF tasks[t].scorer THEN loads
                ELSE [loads EXCEPT !["fasttext"] = @ + 1]
    /\ tasks' = [tasks EXCEPT ![t].scorer = TRUE, ![t].pc = "idle"]
    /\ UNCHANGED spacyCache
    /\ UNCHANGED <<aggVars, analyzerVars, feedVars, call>>

\* ------------------------------------------------------------------------
\* The memoized functions over the life of a process (stages/geonames.py,
\* stages/juditha.py, stages/rigour.py).
\* ------------------------------------------------------------------------

MemoNames == {"New York City", "Christina"}
MemoTags == {TAG_PER, TAG_LOC}

\* A call, its environment and its outcome; value is <<v>>, <<>> if it raised.
Call(fn, args, fails, value) ==
    [fn |-> fn, args |-> args, fails |-> fails, value |-> value]

\* refine_location(name) is called while the calls in `fails` fail.
CallRefineLocation(name, fails) ==
    /\ call' = <<Call("refine_location", <<name>>, fails,
                      <<CachedRefineLocation(geoCache, name, fails)>>)>>
    /\ geoCache' = RefineLocationCache(geoCache, name, fails)
    /\ UNCHANGED classifyCache

\* classify_mention_juditha(name, tag) is called while the calls in `fails`
\* fail: an exception of predict_schema leaves it and nothing is cached.
CallClassifyMention(name, tag, fails) ==
    IF <<name, tag>> \in DOMAIN classifyCache
    THEN /\ call' = <<Call("classify_mention_juditha", <<name, tag>>, fails,
                           <<classifyCache[<<name, tag>>]>>)>>
         /\ UNCHANGED <<geoCache, classifyCache>>
    ELSE IF "predict_schema" \in fails
    THEN /\ call' = <<Call("classify_mention_juditha", <<name, tag>>, fails, <<>>)>>
         /\ UNCHANGED <<geoCache, classifyCache>>
    ELSE /\ call' = <<Call("classify_mention_juditha", <<name, tag>>, fails,
                           <<ClassifyMentionJuditha(name, tag)>>)>>
         /\ classifyCache' =
                [k \in DOMAIN classifyCache \cup {<<name, tag>>} |->
                    IF k \in DOMAIN classifyCache THEN classifyCache[k]
                    ELSE ClassifyMentionJuditha(name, tag)]
         /\ UNCHANGED geoCache

\* is_rigour_person(name) or is_rigour_org(name) is called: no external call.
CallRigour(fn, name) ==
    /\ call' = <<Call(fn, <<name>>, {},
                      <<IF fn = "is_rigour_person" THEN IsRigourPerson(name)
                        ELSE IsRigourOrg(name)>>)>>
    /\ UNCHANGED <<geoCache, classifyCache>>

\* Some stage of some flush in the process calls a memoized function.
MemoCall ==
    /\ \/ \E name \in MemoNames, fails \in Failures : CallRefineLocation(name, fails)
       \/ \E name \in MemoNames, tag \in MemoTags, fails \in Failures :
             CallClassifyMention(name, tag, fails)
       \/ \E name \in MemoNames, fn \in {"is_rigour_person", "is_rigour_org"} :
             CallRigour(fn, name)
    /\ UNCHANGED <<cfg, rank, pc, idx, countries, emitted, entity, annotations,
                   results_count, raised, flog>>
    /\ UNCHANGED <<aggVars, feedVars, loadVars>>

\* ------------------------------------------------------------------------
\* Calls of Annotator.get_texts (annotate.py) after a sequence of adds.
\* ------------------------------------------------------------------------

\* The annotations add_tag and add_mention register in the model.
AddPool ==
    {Annotation("Jane Doe", {}, {}, {"peopleMentioned"}),
     Annotation("Jane Doe", {}, {}, {"namesMentioned"}),
     FromEntity("Jane Doe", [Entity("p1", "Person", <<None, None>>) EXCEPT
                                !.name = {"Jane Doe", "Doe, Jane"}]),
     Annotation("jane", {}, {}, {"namesMentioned"}),
     Annotation("info@acme.eu", {}, {}, {"emailMentioned"}),
     Annotation("fr", {}, {}, {"country"}),
     Annotation("fr", {}, {}, {"locationMentioned"})}

\* The texts of the entity.
AnnotateTexts ==
    {"Jane Doe (jane) info@acme.eu", "jane [Jane  Doe] ", " ( ) "}

\* An Annotator on an entity with one text: the call holds the text and the
\* annotations added so far, in order.
AnnotateInit ==
    \E text \in AnnotateTexts :
        call = <<Call("get_texts", <<text, <<>>>>, {}, <<>>)>>

\* Annotator.add(a), by add, add_tag or add_mention.
AnnotatorAddCall(a) ==
    /\ call # <<>>
    /\ call[1].fn = "get_texts"
    /\ call[1].value = <<>>
    /\ Len(call[1].args[2]) < MaxAnnotations
    /\ annotations' = AnnotatorAdd(annotations, a)
    /\ call' = <<[call[1] EXCEPT !.args = <<@[1], Append(@[2], a)>>]>>
    /\ UNCHANGED <<cfg, rank, pc, idx, countries, emitted, entity, results_count,
                   geoCache, classifyCache, raised, flog>>
    /\ UNCHANGED <<aggVars, feedVars, loadVars>>

\* get_texts runs on the text with the annotations added; the value of the
\* call is the sequence of the texts it yielded.
GetTextsCall ==
    /\ call # <<>>
    /\ call[1].fn = "get_texts"
    /\ call[1].value = <<>>
    /\ call' = <<[call[1] EXCEPT
                    !.value = <<GetTexts(annotations,
                                         AnnotationOrder({}, call[1].args[2]),
                                         call[1].args[1])>>]>>
    /\ UNCHANGED <<aggVars, analyzerVars, feedVars, loadVars>>

AnnotateNext == (\E a \in AddPool : AnnotatorAddCall(a)) \/ GetTextsCall

\* ------------------------------------------------------------------------
\* Calls of test_name (extract/base.py) on candidate values.
\* ------------------------------------------------------------------------

\* Twice the string s.
Twice(s) == s \o s

\* n times the character c.
RECURSIVE Repeat(_, _)
Repeat(c, n) ==
    IF n = 0 THEN ""
    ELSE IF n % 2 = 0 THEN Twice(Repeat(c, n \div 2))
    ELSE c \o Repeat(c, n - 1)

\* The candidate values of the model: optional surrounding whitespace, an
\* optional honorific or article, and a run of letters or of digits.
Names ==
    {lead \o prefix \o Repeat(c, n) \o trail :
        lead \in {"", "  "}, prefix \in {"", "Mr. ", "The "},
        c \in {"a", "1"}, n \in 0..MaxNameBody, trail \in {"", " "}}

\* test_name(text) is about to be called.
NameInit == call \in {<<Call("test_name", <<text>>, {}, <<>>)>> : text \in Names}

\* test_name(text) returns.
TestNameCall ==
    /\ call # <<>>
    /\ call[1].fn = "test_name"
    /\ call[1].value = <<>>
    /\ call' = <<[call[1] EXCEPT !.value = <<TestName(call[1].args[1])>>]>>
    /\ UNCHANGED <<aggVars, analyzerVars, feedVars, loadVars>>

\* ------------------------------------------------------------------------
\* Calls of classify_mention_juditha (stages/juditha.py) in a fresh process,
\* with the answer of predict_schema as an input.
\* ------------------------------------------------------------------------

\* The scores of the model, in hundredths, around the threshold.
Scores == {89, 90, 91}

\* The answers predict_schema can give: up to two predictions.
Predictions == {Prediction(t, sc) : t \in {TAG_PER, TAG_ORG, TAG_LOC, TAG_OTHER},
                                    sc \in Scores}

PredictionLists ==
    {<<>>} \cup {<<a>> : a \in Predictions}
    \cup {<<a, b>> : a \in Predictions, b \in Predictions}

\* The names classified: an organisation name by the rigour heuristic, a
\* name of more than 20 characters, a short name.
ClassifyNames ==
    {"Acme Holdings Ltd", "the Circular Plastics Alliance", "Christina"}

\* classify_mention_juditha(name, original_tag) is about to be called and
\* predict_schema(name) will answer preds.
ClassifyInit ==
    call \in {<<Call("classify_mention_juditha", <<name, tag, preds>>, {}, <<>>)>> :
                 name \in ClassifyNames,
                 tag \in {TAG_PER, TAG_ORG, TAG_LOC, TAG_OTHER},
                 preds \in PredictionLists}

\* classify_mention_juditha(name, original_tag) returns.
ClassifyCall ==
    /\ call # <<>>
    /\ call[1].fn = "classify_mention_juditha"
    /\ call[1].value = <<>>
    /\ call' = <<[call[1] EXCEPT !.value =
                     <<ClassifyPredictions(call[1].args[3], call[1].args[1],
                                           call[1].args[2])>>]>>
    /\ UNCHANGED <<aggVars, analyzerVars, feedVars, loadVars>>

\* ------------------------------------------------------------------------
\* JudithaClassifierStage.process on one mention in a fresh process, after
\* RigourStage or as the first stage (analyzer.py _create_pipeline).
\* ------------------------------------------------------------------------

\* The names of the mentions classified.
StageNames ==
    {"Angela Merkel", "Acme Holdings Ltd", "the Circular Plastics Alliance",
     "New York City", "Christina", "Pudel von Nirgendwo",
     "Morgan Stanley Rothschild", "Michael Holding"}

\* The mention flush makes of an aggregated group holding one result.
StageMention(r) ==
    FromAggregated(MakeKey(r), r.tag, {r.value}, "doc1", {r.source})

\* The state a resolve of mention m starts from in a fresh process.
StageStart(m) ==
    [mention |-> m, countries |-> {}, geoCache |-> <<>>, classifyCache |-> <<>>,
     raised |-> None, trace |-> <<>>, added |-> {}, failed |-> {}]

\* The stages up to the classifier.
ClassifierPipeline(use_rigour) ==
    CreatePipeline([DefaultConfig EXCEPT !.use_rigour = use_rigour,
                                         !.use_juditha_validator = FALSE,
                                         !.use_geonames = FALSE,
                                         !.use_juditha_lookup = FALSE])

\* What the classifier did: the mention it was given, the name it classified
\* and the mention it returned.
StageOutcome(before, after, o) ==
    [before |-> before, name |-> First(CurrentValues(before), o), after |-> after]

\* The mention of result r is about to go through the stages.
StageInit ==
    call \in {<<Call("juditha_classifier", <<r, use_rigour>>, {}, <<>>)>> :
                 r \in {Result(name, tag, "spacy", <<>>) :
                           name \in StageNames, tag \in NER_TAGS},
                 use_rigour \in BOOLEAN}

\* resolve runs the stages up to the classifier on the mention.
StageCall ==
    /\ call # <<>>
    /\ call[1].fn = "juditha_classifier"
    /\ call[1].value = <<>>
    /\ call' = <<[call[1] EXCEPT !.value =
            <<StageOutcome(
                Resolve(SubSeq(ClassifierPipeline(call[1].args[2]), 1,
                               Len(ClassifierPipeline(call[1].args[2])) - 1),
                        StageStart(StageMention(call[1].args[1])),
                        [fails |-> {}, rank |-> rank]).mention,
                Resolve(ClassifierPipeline(call[1].args[2]),
                        StageStart(StageMention(call[1].args[1])),
                        [fails |-> {}, rank |-> rank]).mention,
                [fails |-> {}, rank |-> rank])>>]>>
    /\ UNCHANGED <<aggVars, analyzerVars, feedVars, loadVars>>


vars == <<aggVars, analyzerVars, otherVars>>

\* One Analyzer: results are fed, then flush runs to its end.
Init ==
    /\ AggInit /\ AnalyzerInit /\ cfg \in Configs /\ rank \in Rankings
    /\ FeedInit /\ doc = <<>> /\ LoadInit /\ call = <<>>

FeedAny == \E r \in FeedResults : Feed(r)

Next == FeedAny \/ FlushStart \/ FlushStep \/ FlushFinish

Spec == Init /\ [][Next]_vars

\* The Aggregator alone, driven by calls of add.
InitAgg ==
    /\ AggInit /\ AnalyzerInit /\ cfg = DefaultConfig /\ rank = Strings
    /\ FeedInit /\ doc = <<>> /\ LoadInit /\ call = <<>>

NextAgg == AddAny /\ UNCHANGED <<analyzerVars, otherVars>>

SpecAgg == InitAgg /\ [][NextAgg]_vars

\* feed of one Analyzer over the chunks of a text.
InitFeed ==
    /\ AggInit /\ AnalyzerInit /\ cfg = DefaultConfig /\ rank = Strings
    /\ FeedInit /\ doc \in Documents /\ LoadInit /\ call = <<>>

NextFeed == NerStart \/ Yield \/ NerEnd \/ PatternStart \/ PatternEnd

SpecFeed == InitFeed /\ [][NextFeed]_vars

\* The tasks of one process and the models they initialize.
NextLoad ==
    \E t \in Tasks :
        \/ \E e \in Engines : NewAnalyzer(t, e)
        \/ GetPipeline(t)
        \/ SpacyLookup(t)
        \/ SpacyLoad(t)
        \/ ScorerModel(t)

SpecLoad == InitAgg /\ [][NextLoad]_vars

\* The calls of the memoized functions made in one process.
SpecMemo == InitAgg /\ [][MemoCall]_vars

\* ------------------------------------------------------------------------
\* GeonamesStage.process over the life of a process (stages/geonames.py):
\* the lru_cache of refine_location is shared by every call.
\* ------------------------------------------------------------------------

\* The most values a mention of these calls holds.
MaxValues == 2

GeoNames == {"New York City", "Christina", "Angela Merkel", "Pudel von Nirgendwo"}

\* The values a LOC mention may hold.
GeoValues == {vs \in SUBSET GeoNames : Cardinality(vs) \in 1..MaxValues}

\* GeonamesStage.process(mention, context) on a LOC mention with these
\* values while the calls in `fails` fail; the call records the cache it
\* found and the state it left.
CallGeonames(values, fails) ==
    LET m == FromAggregated("geo", TAG_LOC, values, "doc1", {"spacy"})
        st == GeonamesProcess([StageStart(m) EXCEPT !.geoCache = geoCache],
                              [fails |-> fails, rank |-> rank])
    IN  /\ call' = <<Call("geonames", <<values, geoCache>>, fails, <<st>>)>>
        /\ geoCache' = st.geoCache
        /\ UNCHANGED classifyCache

GeoCall ==
    /\ \/ \E name \in GeoNames, fails \in Failures : CallRefineLocation(name, fails)
       \/ \E values \in GeoValues, fails \in Failures : CallGeonames(values, fails)
    /\ UNCHANGED <<cfg, rank, pc, idx, countries, emitted, entity, annotations,
                   results_count, raised, flog>>
    /\ UNCHANGED <<aggVars, feedVars, loadVars>>

InitGeo ==
    /\ AggInit /\ AnalyzerInit /\ cfg = DefaultConfig /\ rank \in Rankings
    /\ FeedInit /\ doc = <<>> /\ LoadInit /\ call = <<>>

SpecGeo == InitGeo /\ [][GeoCall]_vars

\* ------------------------------------------------------------------------
\* RigourStage.process on the mentions flush hands to the pipeline
\* (stages/rigour.py): rigour is the first stage.
\* ------------------------------------------------------------------------

RigourNames ==
    {"Angela Merkel", "Mrs. Angela Merkel", "Acme Holdings Ltd",
     "the Circular Plastics Alliance", "Pudel von Nirgendwo", "New York City"}

RigourValues == {vs \in SUBSET RigourNames : Cardinality(vs) \in 1..MaxValues}

\* A mention is about to enter RigourStage.process.
RigourInit ==
    call \in {<<Call("rigour",
                     <<FromAggregated("rigour", tag, values, "doc1", {"spacy"})>>,
                     {}, <<>>)>> : tag \in NER_TAGS, values \in RigourValues}

\* RigourStage.process(mention, context) returns.
RigourCall ==
    /\ call # <<>>
    /\ call[1].fn = "rigour"
    /\ call[1].value = <<>>
    /\ call' = <<[call[1] EXCEPT !.value =
            <<RigourProcess(StageStart(call[1].args[1]),
                            [fails |-> {}, rank |-> rank]).mention>>]>>
    /\ UNCHANGED <<aggVars, analyzerVars, feedVars, loadVars>>

InitRigour ==
    /\ AggInit /\ AnalyzerInit /\ cfg = DefaultConfig /\ rank \in Rankings
    /\ FeedInit /\ doc = <<>> /\ LoadInit /\ RigourInit

SpecRigour == InitRigour /\ [][RigourCall]_vars

\* ------------------------------------------------------------------------
\* One Analyzer fed with names the extractors tagged in more than one way
\* (analyzer.py feed and flush).
\* ------------------------------------------------------------------------

TaggedResults ==
    { Result("Angela Merkel", TAG_PER, "spacy", <<>>),
      Result("Angela Merkel", TAG_ORG, "spacy", <<>>),
      Result("Angela Merkel", TAG_LOC, "spacy", <<>>),
      Result("Circular Plastics Alliance", TAG_ORG, "spacy", <<>>),
      Result("Circular Plastics Alliance", TAG_PER, "spacy", <<>>),
      Result("New York City", TAG_LOC, "spacy", <<>>) }

FeedTagged == \E r \in TaggedResults : Feed(r)

NextTagged == FeedTagged \/ FlushStart \/ FlushStep \/ FlushFinish

InitTagged ==
    /\ AggInit /\ AnalyzerInit /\ rank \in Rankings
    /\ cfg \in {DefaultConfig, [DefaultConfig EXCEPT !.use_rigour = FALSE]}
    /\ FeedInit /\ doc = <<>> /\ LoadInit /\ call = <<>>

SpecTagged == InitTagged /\ [][NextTagged]_vars

\* ------------------------------------------------------------------------
\* The deduplication key of pattern results (aggregator.py `_make_key`).
\* ------------------------------------------------------------------------

MaxKeyAdds == 2

\* followthemoney PropertyType.clean for the types of the pattern tags on the
\* values of the model: an email's domain is lowercased, a phone number goes
\* to E.164, an IBAN loses its blanks and is uppercased.
TypeClean(tag, value) ==
    CASE tag = TAG_EMAIL /\ value = "info@ACME.EU" -> "info@acme.eu"
      [] tag = TAG_PHONE /\ value = "+49 30 123456" -> "+4930123456"
      [] tag = TAG_IBAN /\ value = "CH56 0483 5012 3456 7800 9" ->
            "CH5604835012345678009"
      [] OTHER -> value

\* Results with a pattern tag, as the pattern extractor yields them (cleaned)
\* and as another caller of Aggregator.add may hand them in.
KeyResults ==
    { Result("info@acme.eu", TAG_EMAIL, "pattern", <<>>),
      Result("info@ACME.EU", TAG_EMAIL, "pattern", <<>>),
      Result("+4930123456", TAG_PHONE, "pattern", <<>>),
      Result("+49 30 123456", TAG_PHONE, "pattern", <<>>),
      Result("CH5604835012345678009", TAG_IBAN, "pattern", <<>>),
      Result("CH56 0483 5012 3456 7800 9", TAG_IBAN, "pattern", <<>>),
      Result("CH5604835012345678000", TAG_IBAN, "pattern", <<>>),
      Result("ch", TAG_COUNTRY, "pattern", <<>>),
      Result("de", TAG_COUNTRY, "pattern", <<>>),
      Result("de", TAG_COUNTRY, "spacy", <<>>),
      Result("de", TAG_EMAIL, "pattern", <<>>) }

\* One call of Aggregator.add with a pattern result.
KeyAdd(r) ==
    /\ accepted_count + rejected_count < MaxKeyAdds
    /\ AggAdd(r)

NextKey == (\E r \in KeyResults : KeyAdd(r)) /\ UNCHANGED <<analyzerVars, otherVars>>

SpecKey == InitAgg /\ [][NextKey]_vars

\* test_name on the candidate values.
InitName ==
    /\ AggInit /\ AnalyzerInit /\ cfg = DefaultConfig /\ rank = Strings
    /\ FeedInit /\ doc = <<>> /\ LoadInit /\ NameInit

SpecName == InitName /\ [][TestNameCall]_vars

\* Annotator.get_texts on texts and sequences of adds.
InitAnnotate ==
    /\ AggInit /\ AnalyzerInit /\ cfg = DefaultConfig /\ rank = Strings
    /\ FeedInit /\ doc = <<>> /\ LoadInit /\ AnnotateInit

SpecAnnotate == InitAnnotate /\ [][AnnotateNext]_vars

\* classify_mention_juditha on names, tags and answers of predict_schema.
InitClassify ==
    /\ AggInit /\ AnalyzerInit /\ cfg = DefaultConfig /\ rank = Strings
    /\ FeedInit /\ doc = <<>> /\ LoadInit /\ ClassifyInit

SpecClassify == InitClassify /\ [][ClassifyCall]_vars

\* The classifier stage on the mentions of the model.
InitStage ==
    /\ AggInit /\ AnalyzerInit /\ cfg = DefaultConfig /\ rank \in Rankings
    /\ FeedInit /\ doc = <<>> /\ LoadInit /\ StageInit

SpecStage == InitStage /\ [][StageCall]_vars

\* ------------------------------------------------------------------------
\* Claims about the aggregator.
\* ------------------------------------------------------------------------

LookupKey(r) == <<MakeKey(r), r.tag>>

\* C1: after any sequence of Aggregator.add calls the aggregator holds at most
\* MAX_RESULTS distinct (key, tag) groups, and an add that would create a
\* group beyond the bound returns false, is counted under
\* rejection_reasons["max_results_exceeded"] and leaves every group unchanged.
C1_CapacityBound ==
    /\ [](Cardinality(DOMAIN results) <= MAX_RESULTS /\ Len(order) <= MAX_RESULTS)
    /\ [][\A r \in AggResults :
            ( /\ Add(r)
              /\ MakeKey(r) # ""
              /\ LookupKey(r) \notin DOMAIN results
              /\ Cardinality(DOMAIN results) >= MAX_RESULTS )
            => /\ ret' = <<FALSE>>
               /\ rejection_reasons'["max_results_exceeded"]
                      = rejection_reasons["max_results_exceeded"] + 1
               /\ results' = results
               /\ order' = order]_vars

\* C1 witness: the aggregator is full and the latest add, of a result with a
\* valid key of a group not held, was refused and counted.
C1_Witness ==
    /\ Cardinality(DOMAIN results) = MAX_RESULTS
    /\ arg # <<>> /\ ret = <<FALSE>>
    /\ MakeKey(arg[1]) # ""
    /\ LookupKey(arg[1]) \notin DOMAIN results
    /\ rejection_reasons["max_results_exceeded"] > 0

\* What add_value must have done to group k when result r was accepted.
Accumulated(r, before, after) ==
    /\ r.value \in after.values
    /\ r.source \in after.sources
    /\ after.values = before.values \cup {r.value}
    /\ after.sources = before.sources \cup {r.source}
    /\ after.max_confidence =
           IF r.confidence = <<>> THEN before.max_confidence
           ELSE IF before.max_confidence = <<>> THEN r.confidence
           ELSE IF r.confidence[1] >= before.max_confidence[1] THEN r.confidence
           ELSE before.max_confidence

\* C2 as stated: in every reachable aggregator state, however many groups are
\* held, adding a result whose (key, tag) group exists is accepted and the
\* group accumulates the value, the source and the maximum confidence.
C2_Original ==
    [][\A r \in AggResults :
          (Add(r) /\ MakeKey(r) # "" /\ LookupKey(r) \in DOMAIN results)
          => /\ ret' = <<TRUE>>
             /\ Accumulated(r, results[LookupKey(r)], results'[LookupKey(r)])]_vars

\* C2 amended: while fewer than MAX_RESULTS groups are held, adding a result
\* whose group exists is accepted and accumulates value, source and maximum
\* confidence; once MAX_RESULTS groups are held the same add is refused
\* (false, counted under max_results_exceeded) and the group is unchanged.
C2_DedupBelowCapacity ==
    [][\A r \in AggResults :
          (Add(r) /\ MakeKey(r) # "" /\ LookupKey(r) \in DOMAIN results)
          => IF Cardinality(DOMAIN results) < MAX_RESULTS
             THEN /\ ret' = <<TRUE>>
                  /\ accepted_count' = accepted_count + 1
                  /\ DOMAIN results' = DOMAIN results
                  /\ Accumulated(r, results[LookupKey(r)], results'[LookupKey(r)])
             ELSE /\ ret' = <<FALSE>>
                  /\ rejection_reasons'["max_results_exceeded"]
                         = rejection_reasons["max_results_exceeded"] + 1
                  /\ results' = results]_vars

\* C2 witness: the latest add was accepted into a group that already held
\* another value and a smaller confidence than the one now retained.
C2_Witness ==
    /\ arg # <<>> /\ ret = <<TRUE>>
    /\ LookupKey(arg[1]) \in DOMAIN results
    /\ results[LookupKey(arg[1])].values # {arg[1].value}
    /\ Cardinality(results[LookupKey(arg[1])].sources) > 1
    /\ arg[1].confidence = <<1>>
    /\ results[LookupKey(arg[1])].max_confidence = <<2>>

\* ------------------------------------------------------------------------
\* Claims about the resolution pipeline and flush.
\* ------------------------------------------------------------------------

\* C3: once a stage rejects a mention, resolve invokes process of no later
\* stage on it (the rejecting call is the last one made), and the mention
\* resolve returns is the one that call returned, rejected by that stage.
C3_RejectionEndsResolve ==
    \A k \in 1..Len(flog) :
        \A i \in 1..Len(flog[k].trace) :
            flog[k].trace[i].mention.is_rejected =>
                /\ i = Len(flog[k].trace)
                /\ flog[k].mention = <<flog[k].trace[i].mention>>
                /\ flog[k].trace[i].mention.rejection_stage = flog[k].trace[i].stage

\* A mention was rejected by the classifier in a pipeline that has stages
\* after it, and flush went on.
C3_Witness ==
    \E k \in 1..Len(flog) :
        /\ flog[k].outcome = "rejected"
        /\ flog[k].mention[1].rejection_stage = "juditha_classifier"
        /\ Len(flog[k].trace) < Len(CreatePipeline(cfg))

\* The flush step just taken ended with a rejected mention.
StepRejected ==
    /\ Len(flog') = Len(flog) + 1
    /\ flog'[Len(flog')].mention # <<>>
    /\ flog'[Len(flog')].mention[1].is_rejected

\* C4: a mention that ends resolution rejected contributes nothing: the step
\* of flush that handled it emits no entity, leaves the properties of the
\* output entity and the annotations as they were, and no stage added a
\* country to the context countries while processing it; no emitted entity
\* stems from its group.
C4_RejectedContributesNothing ==
    /\ [][StepRejected =>
            /\ emitted' = emitted
            /\ entity' = entity
            /\ annotations' = annotations
            /\ countries' = countries
            /\ flog'[Len(flog')].added = {}
            /\ results_count' = results_count]_vars
    /\ [](\A k \in 1..Len(flog) :
            (flog[k].mention # <<>> /\ flog[k].mention[1].is_rejected) =>
                \A j \in 1..Len(emitted) : emitted[j].origin # flog[k].group)

\* An annotating Analyzer went past a person mention rejected by the
\* validator, after it had emitted for another group.
C4_Witness ==
    /\ cfg.annotate
    /\ cfg.use_juditha_lookup
    /\ cfg.use_geonames
    /\ Len(flog) = 2
    /\ flog[1].outcome = "emitted"
    /\ flog[2].outcome = "rejected"
    /\ flog[2].mention[1].rejection_stage = "juditha_validator"
    /\ flog[2].mention[1].ner_tag = "PER"

\* The entities of a sequence of emitted entities: ids, schemata and property
\* values.
EmittedSet(seq) ==
    {[x \in DOMAIN seq[j] \ {"origin"} |-> seq[j][x]] : j \in 1..Len(seq)}

\* The orders in which the groups `keys` can have been created by adds.
Reorderings(keys) ==
    {[i \in 1..Len(keys) |-> keys[p[i]]] : p \in Permutations(1..Len(keys))}

\* flush, start to end, over the groups of the aggregator in the order
\* `keys`, with no failing call.
FlushOf(keys) ==
    Finish(cfg, FlushAll(cfg, FreshFlushState, results, keys,
                         [fails |-> {}, rank |-> rank]))

\* No external call has failed during flush.
NoFailure == \A k \in 1..Len(flog) : flog[k].failed = {}

\* C5: for the results held by the aggregator, the set of entities flush
\* emits and the properties of the output entity are the same for every
\* order in which the results were added.
C5_OrderIndependent ==
    (pc = "done" /\ NoFailure) =>
        \A keys \in Reorderings(order) :
            /\ EmittedSet(FlushOf(keys).emitted) = EmittedSet(emitted)
            /\ FlushOf(keys).entity = entity

\* C10: on a source entity with an id, a flush that ran to completion has
\* yielded the output entity exactly once, as the last entity.
C10_OutputEntityOnce ==
    pc = "done" =>
        /\ Len(emitted) >= 1
        /\ emitted[Len(emitted)].origin = OutputOrigin
        /\ emitted[Len(emitted)].id = cfg.entity_id
        /\ emitted[Len(emitted)].schema = cfg.schema
        /\ \A j \in 1..(Len(emitted) - 1) : emitted[j].origin # OutputOrigin

\* The Analyzer configured as c but without the lookup stage.
LookupDisabled(c) == [c EXCEPT !.use_juditha_lookup = FALSE]

\* The entities one iteration of the loop of flush emits for group g from
\* the state fs.
EmittedFor(c, fs, g, o) ==
    LET n == FlushGroup(c, [fs EXCEPT !.emitted = <<>>], g, o)
    IN  {n.emitted[j] : j \in 1..Len(n.emitted)}

\* C11: a resolved entity flush emits for a mention linked by the lookup
\* stage has the hash of the mention key as id, which is the value of
\* `resolved` of the Mention entity flush emits for the same group when the
\* lookup stage is disabled, and its proof is the id of the analyzed document.
C11_ResolvedIdIsMentionResolved ==
    [][\A j \in (Len(emitted) + 1)..Len(emitted') :
          ( /\ pc = "flush"
            /\ emitted'[j].origin # OutputOrigin
            /\ emitted'[j].schema \notin {"Mention", "BankAccount"} )
          => /\ emitted'[j].id = MakeEntityId(emitted'[j].origin[1])
             /\ emitted'[j].proof = {cfg.entity_id}
             /\ \A fails \in Failures :
                   \A m \in EmittedFor(LookupDisabled(cfg), FlushState,
                                       results[emitted'[j].origin],
                                       [fails |-> fails, rank |-> rank]) :
                       m.schema = "Mention" => m.resolved = {emitted'[j].id}]_vars

\* An Organization was emitted for a group linked by the lookup stage, and
\* without the lookup stage a Mention entity is emitted for that group.
C11_Witness ==
    /\ cfg.use_juditha_lookup
    /\ \E j \in 1..Len(emitted) :
          /\ emitted[j].schema = "Organization"
          /\ emitted[j].proof = {"doc1"}
          /\ \E m \in EmittedFor(LookupDisabled(cfg), FreshFlushState,
                                  results[emitted[j].origin],
                                  [fails |-> {}, rank |-> rank]) :
                m.schema = "Mention" /\ m.resolved = {emitted[j].id}

\* C12 as stated: every derived entity flush emits, the Mention entity
\* included, carries the id of the source entity as proof.
C12_Original ==
    \A j \in 1..Len(emitted) :
        emitted[j].origin # OutputOrigin => emitted[j].proof = {cfg.entity_id}

\* C12 amended: every Resolved entity and every BankAccount flush emits
\* carries the id of the source entity as proof; a Mention entity carries it
\* as document and has no proof.
C12_ProofOrDocument ==
    \A j \in 1..Len(emitted) :
        emitted[j].origin # OutputOrigin =>
            IF emitted[j].schema = "Mention"
            THEN emitted[j].document = {cfg.entity_id} /\ emitted[j].proof = {}
            ELSE emitted[j].proof = {cfg.entity_id}

\* A Mention entity and a BankAccount have been emitted by one flush.
C12_Witness ==
    /\ \E j \in 1..Len(emitted) : emitted[j].schema = "Mention"
    /\ \E j \in 1..Len(emitted) :
          emitted[j].schema = "BankAccount" /\ emitted[j].proof = {"doc1"}

\* C7: a failing external call of a stage does not leave the stage: the
\* mention is neither lost to an exception nor left half resolved; unless a
\* stage rejected it, every stage of the pipeline has processed it, and the
\* stages that caught a failure did not reject it.
C7_FailureStaysInStage ==
    \A k \in 1..Len(flog) :
        flog[k].failed # {} =>
            /\ flog[k].outcome \in {"emitted", "rejected"}
            /\ \/ flog[k].mention[1].is_rejected
               \/ Len(flog[k].trace) = Len(CreatePipeline(cfg))
            /\ flog[k].mention[1].rejection_stage \notin {"geonames", "juditha_lookup"}

\* ------------------------------------------------------------------------
\* Claims about feed, model loading and memoization.
\* ------------------------------------------------------------------------

\* C6: feed does not raise when the NER extractor raises on a chunk: when
\* feed is over, the pattern extractor has run on every chunk and the NER
\* extractor has been run on every chunk.
C6_ExtractorFailureSkipped ==
    /\ phase # "raised"
    /\ phase = "done" =>
          \A i \in 1..Len(doc) :
              /\ \E k \in 1..Len(ran) :
                    ran[k].chunk = i /\ ran[k].extractor = "pattern"
              /\ \E k \in 1..Len(ran) :
                    ran[k].chunk = i /\ ran[k].extractor = "ner"

\* The tags a result reaching the aggregator may have.
ClosedTags ==
    {TAG_PER, TAG_ORG, TAG_LOC, TAG_EMAIL, TAG_PHONE, TAG_IBAN, TAG_COUNTRY}

\* C13: every result feed passes to Aggregator.add, every result an
\* extractor has still to yield and every group of the aggregator has a tag
\* of the closed tag set; an entity whose model label is outside the label
\* map is normalized to OTHER and yields no result.
C13_ClosedTagSet ==
    /\ arg # <<>> => arg[1].tag \in ClosedTags
    /\ \A i \in 1..Len(pending) : pending[i].tag \in ClosedTags
    /\ \A k \in DOMAIN results : k[2] \in ClosedTags
    /\ \A i \in 1..Len(doc) :
          \A j \in 1..Len(ModelEntities(doc[i])) :
              ModelEntities(doc[i])[j].label \notin DOMAIN NER_LABEL_MAP =>
                  /\ NormalizeLabel(ModelEntities(doc[i])[j].label) = TAG_OTHER
                  /\ MakeNerResult(ModelEntities(doc[i])[j].label,
                                   ModelEntities(doc[i])[j].text, "spacy") = <<>>

\* feed went through a chunk in which the model found an entity with a label
\* outside the label map next to a person, and has passed a pattern result
\* of the next chunk to the aggregator.
C13_Witness ==
    /\ Len(doc) = 2
    /\ doc[1] = "Das ist der Pudel von Angela Merkel."
    /\ \E k \in 1..Len(ran) :
          ran[k].chunk = 1 /\ ran[k].extractor = "ner" /\ ran[k].outcome = "ok"
    /\ \E k \in DOMAIN results : k[2] = TAG_PER
    /\ arg # <<>> /\ arg[1].tag = TAG_EMAIL /\ arg[1].source = "pattern"

\* Whether a length is within the bounds of a name.
NameLength(n) == NAME_MIN_LENGTH <= n /\ n <= NAME_MAX_LENGTH

\* Whether the trimmed and prefix-stripped value v is an acceptable name.
AcceptableStripped(v) == NameLength(Len(v)) /\ HasChar(v, Letters)

\* C14: test_name accepts a value if and only if, trimmed and without its
\* prefix, it is 8 to 100 characters long and has a letter: both length
\* bounds apply to the prefix-stripped value.
C14_TestNameIff ==
    (call # <<>> /\ call[1].fn = "test_name" /\ call[1].value # <<>>) =>
        call[1].value[1] =
            AcceptableStripped(CleanEntityPrefix(StripRight(StripLeft(call[1].args[1]))))

\* The first prediction of `preds` from position i on whose score is at
\* least 0.9, 0 for none.
RECURSIVE FirstAtLeastThreshold(_, _)
FirstAtLeastThreshold(preds, i) ==
    IF i > Len(preds) THEN 0
    ELSE IF preds[i].score >= 90 THEN i
    ELSE FirstAtLeastThreshold(preds, i + 1)

\* C15: classify_mention_juditha honours the first prediction, in the order
\* returned, whose score is greater than or equal to 0.9: that prediction
\* decides the tag, subject to the two overrides; if there is none the rigour
\* fallback applies.
C15_HonouredFromThreshold ==
    ( /\ call # <<>> /\ call[1].fn = "classify_mention_juditha"
      /\ Len(call[1].args) = 3 /\ call[1].value # <<>> )
    => call[1].value[1] =
           ClassifyHonoured(call[1].args[3],
                            FirstAtLeastThreshold(call[1].args[3], 1),
                            call[1].args[1], call[1].args[2])

\* The classifier stage has returned.
StageReturned ==
    call # <<>> /\ call[1].fn = "juditha_classifier" /\ call[1].value # <<>>

\* NameDB predicts tag for name with a score of at least 0.9, as the first
\* such prediction.
ConfidentlyPredicted(name, tag) ==
    /\ FirstAtLeastThreshold(PredictSchema(name), 1) # 0
    /\ PredictSchema(name)[FirstAtLeastThreshold(PredictSchema(name), 1)].ner_tag = tag

\* C16: a mention aggregated with tag ORG whose classified name is longer
\* than 20 characters and confidently predicted PER has ner_tag ORG after
\* the classifier stage, with and without RigourStage before it.
C16_LongOrgStaysOrg ==
    ( /\ StageReturned
      /\ call[1].args[1].tag = TAG_ORG
      /\ Len(call[1].value[1].name) > 20
      /\ ConfidentlyPredicted(call[1].value[1].name, TAG_PER) )
    => call[1].value[1].after.ner_tag = TAG_ORG

\* The mention the classifier returned is rejected exactly if its ner_tag is
\* OTHER, a rejection records the stage and a reason, and a mention that is
\* not rejected has a NER tag.
RejectedIffOther(m) ==
    /\ m.is_rejected <=> m.ner_tag = TAG_OTHER
    /\ m.is_rejected =>
          /\ m.rejection_stage = "juditha_classifier"
          /\ m.rejection_reason \notin {None, ""}
    /\ ~m.is_rejected => m.ner_tag \in {TAG_PER, TAG_ORG, TAG_LOC}

TextsReturned ==
    call # <<>> /\ call[1].fn = "get_texts" /\ call[1].value # <<>>

\* The position of the ")" that ends the construct starting with "[" at
\* position i, 0 unless the construct is [value](query) with no bracket and
\* no parenthesis in value and query.
FlatEnd(text, i) ==
    IF /\ At(text, Find(text, SKIP_CHARS, i + 1), "]")
       /\ At(text, Find(text, SKIP_CHARS, i + 1) + 1, "(")
       /\ At(text, Find(text, SKIP_CHARS, Find(text, SKIP_CHARS, i + 1) + 2), ")")
    THEN Find(text, SKIP_CHARS, Find(text, SKIP_CHARS, i + 1) + 2)
    ELSE 0

\* Whether the text from position i on is made of plain text and of
\* [value](query) constructs whose value and query hold no bracket and no
\* parenthesis.
RECURSIVE Flat(_, _)
Flat(text, i) ==
    IF Find(text, SKIP_CHARS, i) = 0 THEN TRUE
    ELSE /\ At(text, Find(text, SKIP_CHARS, i), "[")
         /\ FlatEnd(text, Find(text, SKIP_CHARS, i)) # 0
         /\ Flat(text, FlatEnd(text, Find(text, SKIP_CHARS, i)) + 1)

\* C18: whatever the annotations and their order, no substitution is made
\* inside a [value](query) construct that is already in the text, neither in
\* its value nor in its query: the text get_texts yields holds no construct
\* inside another one.
C18_NeverNested ==
    TextsReturned =>
        \A i \in 1..Len(call[1].value[1]) : Flat(call[1].value[1][i], 1)

\* The position of the ")" that ends the construct [X](Q) starting at
\* position i of the text, 0 if none starts there.
ConstructEnd(text, i) ==
    IF Char(text, i) = "[" /\ At(text, Find(text, {"]"}, i) + 1, "(")
    THEN Find(text, {")"}, Find(text, {"]"}, i))
    ELSE 0

\* The text from position i on with each [X](Q) replaced by X, as a reader
\* of the annotated-text format does.
RECURSIVE StripAnnotations(_, _)
StripAnnotations(text, i) ==
    IF Find(text, {"["}, i) = 0 THEN SubSeq(text, i, Len(text))
    ELSE IF ConstructEnd(text, Find(text, {"["}, i)) # 0
    THEN SubSeq(text, i, Find(text, {"["}, i) - 1)
         \o SubSeq(text, Find(text, {"["}, i) + 1,
                   Find(text, {"]"}, Find(text, {"["}, i)) - 1)
         \o StripAnnotations(text, ConstructEnd(text, Find(text, {"["}, i)) + 1)
    ELSE SubSeq(text, i, Find(text, {"["}, i))
         \o StripAnnotations(text, Find(text, {"["}, i) + 1)

\* C19: replacing each [X](Q) by X in a text get_texts yields gives
\* clean_text of the original text.
C19_RoundTrip ==
    TextsReturned =>
        \A i \in 1..Len(call[1].value[1]) :
            StripAnnotations(call[1].value[1][i], 1) = CleanText(call[1].args[1])

\* On the texts that hold no construct inside another one, the round trip
\* gives clean_text of the original text.
RoundTripOfFlat ==
    TextsReturned =>
        \A i \in 1..Len(call[1].value[1]) :
            Flat(call[1].value[1][i], 1)
                => StripAnnotations(call[1].value[1][i], 1)
                    = CleanText(call[1].args[1])

\* C20: when the factory cannot construct the entity of a mention that
\* survived the stages, flush raises nothing and skips only that entity: the
\* loop body ends for the group with no entity of its own, and flush goes
\* on to the other groups and to the output entity.
C20_FactoryFailureSkipped ==
    \A i \in 1..Len(flog) :
        (/\ flog[i].mention # <<>>
         /\ flog[i].outcome \notin {"raised", "rejected"}
         /\ FactoryRaises(flog[i].mention[1]) # None)
            => /\ flog[i].outcome = "emitted"
               /\ \A j \in 1..Len(emitted) : emitted[j].origin # flog[i].group
               /\ pc # "failed"

\* Whether the group of the log entry gave a mention that left the pipeline
\* not rejected.
Survived(l) ==
    l.mention # <<>> /\ ~l.mention[1].is_rejected /\ l.outcome # "raised"

\* C21: whatever stages are enabled, a mention that leaves the pipeline not
\* rejected has a caption: reading it raises nothing and gives a non-empty
\* string, also after a stage rewrote resolved_values by prefix stripping.
C21_SurvivorHasCaption ==
    \A i \in 1..Len(flog) :
        Survived(flog[i]) => Caption(flog[i].mention[1]) \notin {None, ""}

\* A mention survived whose caption is picked from the values RigourStage
\* stripped a prefix from.
C21_Witness ==
    \E i \in 1..Len(flog) :
        /\ Survived(flog[i])
        /\ flog[i].mention[1].canonical_value = None
        /\ flog[i].mention[1].resolved_values # {}
        /\ flog[i].mention[1].resolved_values # flog[i].mention[1].values
        /\ Caption(flog[i].mention[1]) \in flog[i].mention[1].resolved_values

\* The positions in `emitted` of the entities made for the group of the log
\* entry.
CreatedFor(l) == {j \in 1..Len(emitted) : emitted[j].origin = l.group}

\* What create_from_mention yields for the surviving mention of the log
\* entry: at most one entity; a resolved entity of the resolved schema when
\* there is one; otherwise a Mention entity exactly for PER and ORG; nothing
\* for LOC, whose values still go to locationMentioned.
YieldsBySchema(l) ==
    /\ Cardinality(CreatedFor(l)) <= 1
    /\ l.mention[1].resolved_schema # None =>
            \E j \in CreatedFor(l) : emitted[j].schema = l.mention[1].resolved_schema
    /\ l.mention[1].resolved_schema = None =>
            ((\E j \in CreatedFor(l) : emitted[j].schema = "Mention")
                <=> l.mention[1].ner_tag \in {TAG_PER, TAG_ORG})
    /\ (l.mention[1].resolved_schema = None /\ l.mention[1].ner_tag = TAG_LOC) =>
            /\ CreatedFor(l) = {}
            /\ {NormalizeName(v) : v \in CurrentValues(l.mention[1])} \ {""}
                    \subseteq entity.locationMentioned

\* C22: for every surviving mention create_from_mention yields at most one
\* entity, a resolved entity of schema resolved_schema when that is set,
\* otherwise a Mention entity if and only if ner_tag is PER or ORG; a LOC
\* mention without resolved schema yields none and its values are added to
\* locationMentioned.
C22_YieldsBySchema ==
    \A i \in 1..Len(flog) : Survived(flog[i]) => YieldsBySchema(flog[i])

\* The same for the surviving mentions whose entity the factory constructs.
YieldsBySchemaWhenConstructed ==
    \A i \in 1..Len(flog) :
        (Survived(flog[i]) /\ flog[i].outcome = "emitted") => YieldsBySchema(flog[i])

\* C23: for an output entity without id, flush raises before it resolves
\* a mention and before it emits an entity: the run produces no output.
C23_NoIdNoOutput ==
    cfg.entity_id = None =>
        /\ pc \in {"feed", "failed"}
        /\ pc = "failed" => raised = "ValueError"
        /\ emitted = <<>>
        /\ flog = <<>>
        /\ entity = FreshFlushState.entity
        /\ geoCache = FreshFlushState.geoCache
        /\ classifyCache = FreshFlushState.classifyCache

\* flush raised for an entity without id whose aggregator holds a name
\* group and a pattern group.
C23_Witness ==
    /\ cfg.entity_id = None
    /\ pc = "failed"
    /\ raised = "ValueError"
    /\ \E k \in DOMAIN results : k[2] \in {TAG_PER, TAG_ORG}
    /\ \E k \in DOMAIN results : k[2] = TAG_IBAN

\* The bank accounts, by their position in `emitted`, made for the IBAN v of
\* the group of the log entry.
AccountsFor(l, v) ==
    {j \in CreatedFor(l) : emitted[j].schema = "BankAccount" /\ emitted[j].iban = {v}}

\* C24: for each IBAN of a group flush handled, a BankAccount entity is
\* emitted if and only if the IBAN is valid, and exactly once; its id is the
\* slug of "iban <IBAN>", iban and accountNumber are the IBAN, proof is the
\* id of the source entity and country is the country code the IBAN starts
\* with.
C24_BankAccountIffValid ==
    \A i \in 1..Len(flog) :
        flog[i].group[2] = TAG_IBAN =>
            \A v \in results[flog[i].group].values :
                /\ Cardinality(AccountsFor(flog[i], v))
                        = (IF v \in ValidIbans THEN 1 ELSE 0)
                /\ \A j \in AccountsFor(flog[i], v) :
                        /\ emitted[j].id = SlugifyIban(v)
                        /\ emitted[j].accountNumber = {v}
                        /\ emitted[j].proof = {cfg.entity_id}
                        /\ emitted[j].country = {CleanCountry(SubSeq(v, 1, 2))}

\* flush handled the group of a valid IBAN and the group of an invalid one.
C24_Witness ==
    /\ \E i \in 1..Len(flog) :
          /\ flog[i].group[2] = TAG_IBAN
          /\ results[flog[i].group].values \cap ValidIbans # {}
          /\ \E j \in CreatedFor(flog[i]) : emitted[j].country = {"ch"}
    /\ \E i \in 1..Len(flog) :
          /\ flog[i].group[2] = TAG_IBAN
          /\ results[flog[i].group].values \cap ValidIbans = {}

\* The annotations added to the Annotator so far, as a set.
Added ==
    IF call # <<>> /\ call[1].fn = "get_texts"
    THEN {call[1].args[2][i] : i \in 1..Len(call[1].args[2])} ELSE {}

\* Whether an annotation carries a mention property.
IsMention(a) == a.props \cap MENTION_PROPS # {}

\* C25 as stated: annotations holds one Annotation per value added with a
\* mention property, under its own value, and its props, names and schemata
\* are the unions of those of every add of that value.
C25_Original ==
    /\ DOMAIN annotations = {a.value : a \in {b \in Added : IsMention(b)}}
    /\ \A v \in DOMAIN annotations :
          /\ annotations[v].value = v
          /\ annotations[v].props = UNION {a.props : a \in {b \in Added : b.value = v}}
          /\ annotations[v].names = UNION {a.names : a \in {b \in Added : b.value = v}}
          /\ annotations[v].schemata =
                UNION {a.schemata : a \in {b \in Added : b.value = v}}

\* C25: after any sequence of adds, annotations holds exactly one Annotation
\* per value added with at least one mention property, under its own value;
\* its props, names and schemata are the unions of those of the adds of that
\* value that carried a mention property; an add without mention property
\* changes nothing.
C25_UnionOfMentionAdds ==
    /\ DOMAIN annotations = {a.value : a \in {b \in Added : IsMention(b)}}
    /\ \A v \in DOMAIN annotations :
          /\ annotations[v].value = v
          /\ annotations[v].props =
                UNION {a.props : a \in {b \in Added : b.value = v /\ IsMention(b)}}
          /\ annotations[v].names =
                UNION {a.names : a \in {b \in Added : b.value = v /\ IsMention(b)}}
          /\ annotations[v].schemata =
                UNION {a.schemata : a \in {b \in Added : b.value = v /\ IsMention(b)}}

\* A value was added by add_tag and by add_mention and its annotation holds
\* the union, and another value, added without mention property, is absent.
C25_Witness ==
    /\ "Jane Doe" \in DOMAIN annotations
    /\ annotations["Jane Doe"].props = {"namesMentioned", "peopleMentioned"}
    /\ annotations["Jane Doe"].names = {"Jane Doe", "Doe, Jane"}
    /\ \E a \in Added : a.value = "Jane Doe" /\ a.names = {}
    /\ \E a \in Added : a.value = "fr" /\ ~IsMention(a)
    /\ "fr" \notin DOMAIN annotations

\* What the gazetteer holds for a name: the names and the country codes of
\* the results of tag_locations.
GazetteerNames(v) == {TagLocations(v)[i].loc.name : i \in DOMAIN TagLocations(v)}
GazetteerCountries(v) ==
    {TagLocations(v)[i].loc.country_code : i \in DOMAIN TagLocations(v)}

\* The person-valued values of the mention of a GeonamesStage call.
PersonValues == {v \in call[1].args[1] : IsRigourPerson(v)}

\* The values of the call the stage may accept: those that are no person.
OtherValues == call[1].args[1] \ PersonValues

\* C26: GeonamesStage accepts no value of a LOC mention that satisfies the
\* rigour person heuristic: the canonical value and every country the stage
\* added come from the gazetteer results of the other values, whatever the
\* gazetteer holds for the person value and whatever was cached before.
C26_PersonValueNotAccepted ==
    (call # <<>> /\ call[1].fn = "geonames") =>
        LET st == call[1].value[1]
        IN  /\ st.mention.canonical_value \in
                    {None} \cup UNION {GazetteerNames(v) : v \in OtherValues}
            /\ st.added \subseteq UNION {GazetteerCountries(v) : v \in OtherValues}
            /\ st.countries = st.added
            /\ \A v \in PersonValues \cap DOMAIN st.geoCache :
                    st.geoCache[v] = NoLocation

\* A LOC mention whose person value the gazetteer knows is processed with
\* that value cached before, and its other value is accepted.
C26_Witness ==
    /\ call # <<>> /\ call[1].fn = "geonames" /\ call[1].fails = {}
    /\ call[1].args[1] = {"Christina", "New York City"}
    /\ "Christina" \in DOMAIN call[1].args[2]
    /\ GazetteerNames("Christina") # {}
    /\ call[1].value[1].mention.canonical_value = "New York City"
    /\ call[1].value[1].added = {"us"}

\* The groups with the tag of a pattern result.
PatternGroups == {g \in DOMAIN results : g[2] \notin NER_TAGS}

PatternKeyIsValue ==
    \A g \in PatternGroups : results[g].values = {g[1]}

\* RigourStage.process has returned for the call.
RigourReturned == call # <<>> /\ call[1].fn = "rigour" /\ call[1].value # <<>>

\* Neither heuristic holds for the value RigourStage.process picked.
Unclassified ==
    LET name == First(call[1].args[1].values, [rank |-> rank])
    IN  ~IsRigourPerson(name) /\ ~IsRigourOrg(name)

LowConfidence(v) ==
    Score(v).label = "trash" \/ Score(v).confidence < ConfidenceThreshold

\* C29: with the confidence filter on, iter_results omits a group exactly
\* when its tag is PER, ORG or LOC and one of its values is labelled trash
\* or scores below the threshold; EMAIL, PHONE, IBAN and COUNTRY groups are
\* always yielded; and no step of the iteration changes the aggregator.
C29_FilteredIffLowConfidence ==
    /\ [](cfg.use_confidence =>
            \A i \in DOMAIN flog :
                LET g == results[flog[i].group]
                IN  /\ (flog[i].outcome = "filtered") <=>
                            (g.tag \in NER_TAGS /\ \E v \in g.values : LowConfidence(v))
                    /\ (g.tag \notin NER_TAGS) => (flog[i].outcome = "pattern"))
    /\ [][(pc \in {"flush", "failed", "done"}) => (aggVars' = aggVars)]_vars

\* The filter is on, a group was omitted for a value below the threshold
\* that is not labelled trash, and a pattern group was yielded.
C29_Witness ==
    /\ cfg.use_confidence
    /\ \E i \in DOMAIN flog :
            /\ flog[i].outcome = "filtered"
            /\ \E v \in results[flog[i].group].values :
                    Score(v).label # "trash" /\ Score(v).confidence < ConfidenceThreshold
    /\ \E i \in DOMAIN flog : flog[i].outcome = "pattern"

\* The entities flush emitted for mentions: Mention and resolved entities.
MentionEntities ==
    {i \in DOMAIN emitted :
        emitted[i].origin # OutputOrigin /\ emitted[i].origin[2] \in NER_TAGS}

\* C30: within one flush the entities emitted for distinct (key, tag) groups
\* have pairwise distinct ids.
C30_DistinctIds ==
    \A i, j \in MentionEntities :
        emitted[i].origin # emitted[j].origin => emitted[i].id # emitted[j].id

\* Reclassification aside, the Mention entities of two groups with one key
\* whose mentions kept different ner_tags have distinct ids.
DistinctIdsWhenTagsKept ==
    \A i, j \in MentionEntities :
        (/\ emitted[i].origin # emitted[j].origin
         /\ emitted[i].schema = "Mention" /\ emitted[j].schema = "Mention"
         /\ emitted[i].detectedSchema # emitted[j].detectedSchema)
            => emitted[i].id # emitted[j].id

\* C8: each model is initialized at most once in the process.
C8_SingleInitialization == \A m \in Models : loads[m] <= 1

\* The value the memoized function returns in a fresh process with every
\* service up.
FreshValue(c) ==
    CASE c.fn = "refine_location" -> RefineLocation(c.args[1], {})
      [] c.fn = "classify_mention_juditha" -> ClassifyMentionJuditha(c.args[1], c.args[2])
      [] c.fn = "is_rigour_person" -> IsRigourPerson(c.args[1])
      [] c.fn = "is_rigour_org" -> IsRigourOrg(c.args[1])

\* C9: a memoized call made while no service fails returns what it returns
\* in a fresh process, whatever calls were made before it.
C9_MemoizedValueIsPure ==
    (call # <<>> /\ call[1].fails = {}) =>
        /\ call[1].value # <<>>
        /\ call[1].value[1] = FreshValue(call[1])
====
